---------------------------- MODULE Spec2Model ----------------------------
(***************************************************************************)
(* Scene-graph reconciliation of Godot-MCP: the tree differ                *)
(* (server/src/utils/scene_patch.ts), the id resolver and the property     *)
(* filter (server/src/tools/scene_tools.ts) and the patch applicator       *)
(* (addons/godot_mcp/commands/scene_commands.gd).                          *)
(*                                                                         *)
(* Paths are sequences of node names: "/root/A/B" is <<"root","A","B">>.   *)
(* An absent optional string is "", an absent optional id is 0.            *)
(***************************************************************************)
EXTENDS Integers, Sequences, FiniteSets, TLC

RootPath == <<"root">>

Last(s) == s[Len(s)]

Front(s) == SubSeq(s, 1, Len(s) - 1)

MinOf(S) == CHOOSE x \in S : \A y \in S : x <= y

Range(s) == {s[i] : i \in DOMAIN s}

IsPrefix(p, s) == Len(p) <= Len(s) /\ SubSeq(s, 1, Len(p)) = p

(***************************************************************************)
(* Property values are JSON values: a number, an array, or an object whose *)
(* pairs keep their insertion order.                                       *)
(***************************************************************************)

JNum(n) == [t |-> "num", n |-> n]

JArr(items) == [t |-> "arr", items |-> items]

JObj(pairs) == [t |-> "obj", pairs |-> pairs]

\* the order of Array.prototype.sort on the keys in use
KeyOrder == <<"a", "b">>

KeyRank(k) == CHOOSE i \in DOMAIN KeyOrder : KeyOrder[i] = k

RECURSIVE sortKeys(_)
sortKeys(keys) ==
  IF keys = {} THEN <<>>
  ELSE LET k == CHOOSE x \in keys : \A y \in keys : KeyRank(x) <= KeyRank(y)
       IN <<k>> \o sortKeys(keys \ {k})

\* scene_tools.ts lines 542-548: the canonical text, as a sequence of tokens
RECURSIVE stableStringify(_)
RECURSIVE stringifyItems(_, _)
RECURSIVE stringifyKeys(_, _, _)
stringifyItems(items, i) ==
  IF i > Len(items) THEN <<>>
  ELSE (IF i > 1 THEN <<",">> ELSE <<>>) \o stableStringify(items[i])
       \o stringifyItems(items, i + 1)

stringifyKeys(pairs, keys, i) ==
  IF i > Len(keys) THEN <<>>
  ELSE LET last == CHOOSE j \in DOMAIN pairs :
                      /\ pairs[j][1] = keys[i]
                      /\ \A m \in DOMAIN pairs : pairs[m][1] = keys[i] => m <= j
       IN (IF i > 1 THEN <<",">> ELSE <<>>) \o <<keys[i], ":">>
          \o stableStringify(pairs[last][2]) \o stringifyKeys(pairs, keys, i + 1)

stableStringify(value) ==
  CASE value.t = "num" -> <<ToString(value.n)>>
    [] value.t = "arr" -> <<"[">> \o stringifyItems(value.items, 1) \o <<"]">>
    [] value.t = "obj" ->
         <<"{">> \o stringifyKeys(value.pairs,
                      sortKeys({value.pairs[j][1] : j \in DOMAIN value.pairs}), 1)
         \o <<"}">>

(***************************************************************************)
(* The tree differ: scene_patch.ts                                         *)
(***************************************************************************)

\* Map from child name to child; a later child of the same name wins.
childMap(children) ==
  [n \in {children[i].name : i \in DOMAIN children} |->
     children[CHOOSE i \in DOMAIN children :
                /\ children[i].name = n
                /\ \A j \in DOMAIN children : children[j].name = n => j <= i]]

\* a variant of desiredChildMap that knows no desired name
desiredChildMapNone(children) == childMap(<<>>)

desiredChildMap(children) == childMap(children)

\* String.replace(oldPrefix + '/', newPrefix + '/'): the first occurrence.
fixPath(path, oldPrefix, newPrefix) ==
  IF path = oldPrefix THEN newPrefix
  ELSE LET n == Len(oldPrefix)
           occ == {i \in 1..(Len(path) - n) : SubSeq(path, i, i + n - 1) = oldPrefix}
       IN IF occ = {} THEN path
          ELSE LET i == MinOf(occ)
               IN SubSeq(path, 1, i - 1) \o newPrefix \o SubSeq(path, i + n, Len(path))

RECURSIVE renameSubtree(_, _, _, _)
renameSubtree(node, oldPrefix, newPrefix, newName) ==
  [node EXCEPT !.name = newName,
               !.path = fixPath(node.path, oldPrefix, newPrefix),
               !.children = [i \in DOMAIN node.children |->
                   renameSubtree(node.children[i], oldPrefix, newPrefix,
                                 node.children[i].name)]]

OpCreate(parentPath, nodeType, nodeName, properties) ==
  [op |-> "create_node", parent_path |-> parentPath, node_type |-> nodeType,
   node_name |-> nodeName, properties |-> properties]

OpDelete(nodePath) == [op |-> "delete_node", node_path |-> nodePath]

OpSetProperty(nodePath, property, value) ==
  [op |-> "set_property", node_path |-> nodePath, property |-> property, value |-> value]

OpRename(nodePath, newName) ==
  [op |-> "rename_node", node_path |-> nodePath, new_name |-> newName]

\* index -1 stands for an absent index
OpReparent(nodePath, newParentPath, index) ==
  [op |-> "reparent_node", node_path |-> nodePath, new_parent_path |-> newParentPath,
   index |-> index]

RECURSIVE emitDeletes(_)
RECURSIVE emitDeletesParentFirst(_)
RECURSIVE emitDeletesEach(_, _)
emitDeletesEach(children, i) ==
  IF i > Len(children) THEN <<>>
  ELSE emitDeletes(children[i]) \o emitDeletesEach(children, i + 1)

\* a variant of emitDeletes that deletes a node before its children
emitDeletesParentFirst(node) == <<OpDelete(node.path)>> \o emitDeletesEach(node.children, 1)

emitDeletes(node) == emitDeletesEach(node.children, 1) \o <<OpDelete(node.path)>>

\* aliases is a JS object: insertion-ordered pairs, assignment replaces in place
aliasHas(aliases, key) == \E i \in DOMAIN aliases : aliases[i][1] = key

aliasGet(aliases, key) == aliases[CHOOSE i \in DOMAIN aliases : aliases[i][1] = key][2]

aliasSet(aliases, key, val) ==
  IF aliasHas(aliases, key)
  THEN [i \in DOMAIN aliases |-> IF aliases[i][1] = key THEN <<key, val>> ELSE aliases[i]]
  ELSE Append(aliases, <<key, val>>)

\* a variant of renameCandidates that settles for the first candidate
renameCandidatesFirst(existingChildren, desiredChild, desiredNames, st) ==
  LET all == SelectSeq(existingChildren, LAMBDA ex :
               /\ ex.name \notin st.matchedExistingNames
               /\ ex.name \notin st.usedForRename
               /\ ex.name \notin desiredNames
               /\ ex.type = desiredChild.type)
  IN IF all = <<>> THEN <<>> ELSE <<all[1]>>

\* the candidates of rename detection (filter callback, lines 132-139)
renameCandidates(existingChildren, desiredChild, desiredNames, st) ==
  SelectSeq(existingChildren, LAMBDA ex :
    /\ ex.name \notin st.matchedExistingNames
    /\ ex.name \notin st.usedForRename
    /\ ex.name \notin desiredNames
    /\ ex.type = desiredChild.type
    /\ ~(desiredChild.hasChildren /\ Len(desiredChild.children) # Len(ex.children)))

\* st: operations, errors, aliases (shared by the whole diff) and
\* matchedExistingNames, usedForRename, existingByName (of one diffChildren call)
resolveExistingForDesired(existingChildren, parentPath, desiredChild, desiredNames, o, st) ==
  IF desiredChild.name \in DOMAIN st.existingByName
  THEN LET direct == st.existingByName[desiredChild.name]
       IN [found |-> TRUE, node |-> direct,
           st |-> [st EXCEPT !.matchedExistingNames = @ \cup {direct.name}]]
  ELSE IF ~o.detect_renames \/ desiredChild.type = ""
  THEN [found |-> FALSE, node |-> <<>>, st |-> st]
  ELSE LET candidates == renameCandidates(existingChildren, desiredChild, desiredNames, st)
       IN IF Len(candidates) # 1
          THEN [found |-> FALSE, node |-> <<>>, st |-> st]
          ELSE LET ex == candidates[1]
                   oldPath == Append(parentPath, ex.name)
                   newPath == Append(parentPath, desiredChild.name)
                   renamed == renameSubtree(ex, oldPath, newPath, desiredChild.name)
               IN [found |-> TRUE, node |-> renamed,
                   st |-> [st EXCEPT
                     !.usedForRename = @ \cup {ex.name},
                     !.operations = Append(@, OpRename(oldPath, desiredChild.name)),
                     !.aliases = aliasSet(@, oldPath, newPath),
                     !.matchedExistingNames = @ \cup {ex.name},
                     !.existingByName =
                        [n \in DOMAIN @ \cup {desiredChild.name} |->
                           IF n = desiredChild.name THEN renamed ELSE @[n]]]]

setPropertyOps(nodePath, properties) ==
  [i \in DOMAIN properties |-> OpSetProperty(nodePath, properties[i][1], properties[i][2])]

\* a variant of reorderOps that moves every desired child, in place or not
reorderOpsEvery(existingChildren, parentPath, desiredChildren, aliases, o) ==
  IF ~(o.reorder_children /\ Len(desiredChildren) > 1) THEN <<>>
  ELSE [k \in DOMAIN desiredChildren |->
          OpReparent(Append(parentPath, desiredChildren[k].name), parentPath, k - 1)]

\* lines 182-197
reorderOps(existingChildren, parentPath, desiredChildren, aliases, o) ==
  IF ~(o.reorder_children /\ Len(desiredChildren) > 1) THEN <<>>
  ELSE LET currentOrder == [i \in DOMAIN existingChildren |->
               LET key == Append(parentPath, existingChildren[i].name)
               IN IF aliasHas(aliases, key) THEN Last(aliasGet(aliases, key))
                  ELSE existingChildren[i].name]
           hasIndex(name) == \E i \in DOMAIN currentOrder : currentOrder[i] = name
           currentIndex(name) ==
               CHOOSE i \in DOMAIN currentOrder :
                  /\ currentOrder[i] = name
                  /\ \A j \in DOMAIN currentOrder : currentOrder[j] = name => j <= i
           moved == SelectSeq([i \in DOMAIN desiredChildren |-> i], LAMBDA i :
               ~(hasIndex(desiredChildren[i].name)
                 /\ currentIndex(desiredChildren[i].name) = i))
       IN [k \in DOMAIN moved |->
             OpReparent(Append(parentPath, desiredChildren[moved[k]].name), parentPath,
                        moved[k] - 1)]

\* lines 199-205
deleteOps(existingChildren, desiredNames, matched, o) ==
  IF ~o.allow_delete THEN <<>>
  ELSE emitDeletesEach(
         SelectSeq(existingChildren, LAMBDA ex :
            ex.name \notin matched /\ ex.name \notin desiredNames), 1)

RECURSIVE diffChildren(_, _, _, _, _)
RECURSIVE diffNode(_, _, _, _, _)
RECURSIVE diffNodeLenient(_, _, _, _, _)
RECURSIVE diffDesiredLoop(_, _, _, _, _, _, _)
RECURSIVE diffCreatedLoop(_, _, _, _, _, _)

\* a variant of diffCreatedLoop that leaves the children of a created node out
diffCreatedLoopNone(desiredChild, desiredType, nodePath, k, o, acc) == acc

\* lines 172-175: each child of a created node is diffed against an empty dummy
diffCreatedLoop(desiredChild, desiredType, nodePath, k, o, acc) ==
  IF k > Len(desiredChild.children) THEN acc
  ELSE LET dummy == [name |-> desiredChild.name, type |-> desiredType, path |-> nodePath,
                     id |-> 0, hasProps |-> FALSE, props |-> <<>>, children |-> <<>>]
       IN diffCreatedLoop(desiredChild, desiredType, nodePath, k + 1, o,
             diffChildren(dummy, nodePath, <<desiredChild.children[k]>>, o, acc))

\* lines 157-180
diffDesiredLoop(existingChildren, parentPath, desiredChildren, desiredNames, k, o, st) ==
  IF k > Len(desiredChildren) THEN st
  ELSE LET desiredChild == desiredChildren[k]
           desiredType == IF desiredChild.type = "" THEN "Node" ELSE desiredChild.type
           nodePath == Append(parentPath, desiredChild.name)
           r == resolveExistingForDesired(existingChildren, parentPath, desiredChild,
                                          desiredNames, o, st)
           shared(s) == [operations |-> s.operations, errors |-> s.errors,
                         aliases |-> s.aliases]
           merge(s, acc) == [s EXCEPT !.operations = acc.operations,
                                      !.errors = acc.errors, !.aliases = acc.aliases]
       IN IF ~r.found
          THEN LET s1 == [r.st EXCEPT !.operations =
                            Append(@, OpCreate(parentPath, desiredType, desiredChild.name,
                                               desiredChild.properties))]
               IN diffDesiredLoop(existingChildren, parentPath, desiredChildren,
                     desiredNames, k + 1, o,
                     merge(s1, diffCreatedLoop(desiredChild, desiredType, nodePath, 1, o,
                                               shared(s1))))
          ELSE diffDesiredLoop(existingChildren, parentPath, desiredChildren,
                     desiredNames, k + 1, o,
                     merge(r.st, diffNode(r.node, nodePath, desiredChild, o, shared(r.st))))

\* lines 113-206
diffChildren(existingParent, parentPath, desiredChildren, o, acc) ==
  LET existingChildren == existingParent.children
      desiredNames == DOMAIN desiredChildMap(desiredChildren)
      st0 == [operations |-> acc.operations, errors |-> acc.errors,
              aliases |-> acc.aliases, matchedExistingNames |-> {},
              usedForRename |-> {}, existingByName |-> childMap(existingChildren)]
      st1 == diffDesiredLoop(existingChildren, parentPath, desiredChildren, desiredNames,
                             1, o, st0)
  IN [operations |-> st1.operations
                     \o reorderOps(existingChildren, parentPath, desiredChildren,
                                   st1.aliases, o)
                     \o deleteOps(existingChildren, desiredNames,
                                  st1.matchedExistingNames, o),
      errors |-> st1.errors,
      aliases |-> st1.aliases]

\* a variant of diffNode that goes on below a type mismatch whatever
\* strict_types says
diffNodeLenient(existingNode, nodePath, desiredNode, o, acc) ==
  LET mismatch == desiredNode.type # "" /\ existingNode.type # desiredNode.type
      acc1 == IF mismatch
              THEN [acc EXCEPT !.errors = Append(@,
                      [at |-> nodePath, existing |-> existingNode.type,
                       desired |-> desiredNode.type])]
              ELSE acc
  IN diffChildren(existingNode, nodePath, desiredNode.children, o,
        [acc1 EXCEPT !.operations = @ \o setPropertyOps(nodePath, desiredNode.properties)])

\* lines 208-225
diffNode(existingNode, nodePath, desiredNode, o, acc) ==
  LET mismatch == desiredNode.type # "" /\ existingNode.type # desiredNode.type
      acc1 == IF mismatch
              THEN [acc EXCEPT !.errors = Append(@,
                      [at |-> nodePath, existing |-> existingNode.type,
                       desired |-> desiredNode.type])]
              ELSE acc
  IN IF mismatch /\ o.strict_types THEN acc1
     ELSE diffChildren(existingNode, nodePath, desiredNode.children, o,
             [acc1 EXCEPT !.operations = @ \o setPropertyOps(nodePath, desiredNode.properties)])

\* lines 76-238
generateScenePatch(existingRoot, desiredChildren, o) ==
  LET desiredNames == DOMAIN desiredChildMap(desiredChildren)
      r == diffChildren(existingRoot, RootPath, desiredChildren, o,
                        [operations |-> <<>>, errors |-> <<>>, aliases |-> <<>>])
      rootDeletes ==
        IF ~o.allow_delete THEN <<>>
        ELSE emitDeletesEach(
               SelectSeq(existingRoot.children, LAMBDA c : c.name \notin desiredNames), 1)
  IN [r EXCEPT !.operations = @ \o rootDeletes]

(***************************************************************************)
(* The live tree of the editor (Godot side).  live maps the instance id of *)
(* every node to its record; the edited scene root is instance 1.  parent  *)
(* is 0 for the root and -1 for a node that is in no tree.                 *)
(***************************************************************************)

RootOid == 1

NoParent == -1

\* the property the node classes declare; any other name is undeclared
DeclaredProps == {"p"}

\* ClassDB.class_exists(t) and ClassDB.can_instantiate(t)
InstantiableTypes == {"Node", "Node2D"}

\* Node.get_node_or_null(name) for a child name: the instance id, or 0
get_node_or_null(w, parent, name) ==
  LET hit == {i \in DOMAIN w[parent].kids : w[w[parent].kids[i]].name = name}
  IN IF hit = {} THEN 0 ELSE w[parent].kids[MinOf(hit)]

RECURSIVE walkPath(_, _, _, _)
walkPath(w, cur, path, i) ==
  IF i > Len(path) THEN cur
  ELSE LET c == get_node_or_null(w, cur, path[i])
       IN IF c = 0 THEN 0 ELSE walkPath(w, c, path, i + 1)

\* MCPBaseCommandProcessor._get_editor_node: "/root" is the edited scene root,
\* "/root/a/b" is looked up below it; 0 when there is no such node
get_editor_node(w, path) ==
  IF path = <<>> \/ path[1] # "root" THEN 0 ELSE walkPath(w, RootOid, path, 2)

RECURSIVE is_ancestor_of(_, _, _)
is_ancestor_of(w, a, n) ==
  IF w[n].parent <= 0 THEN FALSE
  ELSE w[n].parent = a \/ is_ancestor_of(w, a, w[n].parent)

RemoveFromSeq(s, x) == SelectSeq(s, LAMBDA y : y # x)

InsertAt(s, i, x) == SubSeq(s, 1, i - 1) \o <<x>> \o SubSeq(s, i, Len(s))

\* Node._validate_child_name: a name taken by a sibling is replaced by a
\* generated unique one
validate_child_name(w, parent, node, name) ==
  IF \E i \in DOMAIN w[parent].kids :
        w[parent].kids[i] # node /\ w[w[parent].kids[i]].name = name
  THEN "@" \o name \o "@" \o ToString(node)
  ELSE name

\* Node.add_child: refused when the child has a parent, is the parent itself
\* or is an ancestor of the parent
add_child(w, parent, node) ==
  IF w[node].parent # NoParent \/ parent = node \/ is_ancestor_of(w, node, parent)
  THEN w
  ELSE [w EXCEPT ![node].parent = parent,
                 ![node].name = validate_child_name(w, parent, node, w[node].name),
                 ![parent].kids = Append(@, node)]

\* Node.remove_child: refused when node is not a child of parent
remove_child(w, parent, node) ==
  IF w[node].parent # parent THEN w
  ELSE [w EXCEPT ![node].parent = NoParent,
                 ![parent].kids = RemoveFromSeq(@, node)]

\* Node.move_child(node, index), index >= 0
move_child(w, parent, node, index) ==
  IF w[node].parent # parent \/ index > Len(w[parent].kids) THEN w
  ELSE LET rest == RemoveFromSeq(w[parent].kids, node)
           at == IF index >= Len(w[parent].kids) THEN Len(rest) + 1 ELSE index + 1
       IN [w EXCEPT ![parent].kids = InsertAt(rest, at, node)]

\* assignment to Node.name
set_name(w, node, name) ==
  [w EXCEPT ![node].name =
     IF w[node].parent > 0 THEN validate_child_name(w, w[node].parent, node, name)
     ELSE name]

\* scene_commands.gd lines 403-412
reparent_node_internal(w, node, new_parent, index) ==
  LET w1 == IF w[node].parent > 0 THEN remove_child(w, w[node].parent, node) ELSE w
      w2 == add_child(w1, new_parent, node)
  IN IF index >= 0 THEN move_child(w2, new_parent, node, index) ELSE w2

\* ClassDB.instantiate(type), node.name = name, _set_mcp_id(node, fresh id):
\* the new instance belongs to no tree yet
instantiate(w, oid, type, name) ==
  [n \in DOMAIN w \cup {oid} |->
     IF n = oid
     THEN [name |-> name, type |-> type, parent |-> NoParent, kids |-> <<>>,
           mcp_id |-> oid, p |-> JNum(0)]
     ELSE w[n]]

\* a queued "do" step of the undo/redo action, executed by commit_action
DoAddChild(parent, node) == [do |-> "add_child", parent |-> parent, node |-> node]

DoRemoveChild(parent, node) == [do |-> "remove_child", parent |-> parent, node |-> node]

DoProperty(node, property, value) ==
  [do |-> "property", node |-> node, property |-> property, value |-> value]

DoReparent(node, new_parent, index) ==
  [do |-> "reparent", node |-> node, new_parent |-> new_parent, index |-> index]

execDo(w, d) ==
  CASE d.do = "add_child" -> add_child(w, d.parent, d.node)
    [] d.do = "remove_child" -> remove_child(w, d.parent, d.node)
    [] d.do = "property" ->
         IF d.property = "name" THEN set_name(w, d.node, d.value)
         ELSE [w EXCEPT ![d.node].p = d.value]
    [] d.do = "reparent" -> reparent_node_internal(w, d.node, d.new_parent, d.index)

RECURSIVE execAll(_, _, _)
execAll(w, dos, i) ==
  IF i > Len(dos) THEN w ELSE execAll(execDo(w, dos[i]), dos, i + 1)

\* the nodes that are in the edited scene
RECURSIVE inTree(_, _)
inTree(w, n) ==
  IF n = RootOid THEN TRUE
  ELSE IF w[n].parent <= 0 THEN FALSE
  ELSE inTree(w, w[n].parent)

sceneOf(w) == [n \in {m \in DOMAIN w : inTree(w, m)} |-> w[n]]

(***************************************************************************)
(* The patch applicator: scene_commands.gd.  A validating function returns *)
(* [ok, error, w, nextOid, dos]: the success flag, the error it appended,  *)
(* the instances after it, the next free instance id and the "do" steps it *)
(* queued on the undo/redo action.                                         *)
(***************************************************************************)

Fail(pa, msg) == [ok |-> FALSE, error |-> msg, w |-> pa.w, nextOid |-> pa.nextOid, dos |-> <<>>]

Queued(w, nextOid, dos) == [ok |-> TRUE, error |-> "", w |-> w, nextOid |-> nextOid, dos |-> dos]

\* the properties of a create_node that the new node declares, in order
createPropertyDos(node, properties) ==
  LET declared == SelectSeq(properties, LAMBDA kv : kv[1] \in DeclaredProps)
  IN [i \in DOMAIN declared |-> DoProperty(node, declared[i][1], declared[i][2])]

\* lines 247-288; pa is [w, nextOid]
queue_create_node(pa, op) ==
  IF op.node_name = "" THEN Fail(pa, "create_node: node_name cannot be empty")
  ELSE IF op.node_type \notin InstantiableTypes
  THEN Fail(pa, "create_node: invalid node_type")
  ELSE LET parent == get_editor_node(pa.w, op.parent_path)
       IN IF parent = 0 THEN Fail(pa, "create_node: parent not found")
          ELSE IF get_node_or_null(pa.w, parent, op.node_name) # 0
          THEN Fail(pa, "create_node: node already exists under parent")
          ELSE Queued(instantiate(pa.w, pa.nextOid, op.node_type, op.node_name),
                      pa.nextOid + 1,
                      <<DoAddChild(parent, pa.nextOid)>>
                        \o createPropertyDos(pa.nextOid, op.properties))

\* lines 290-315
queue_delete_node(pa, op) ==
  IF op.node_path = <<>> THEN Fail(pa, "delete_node: node_path cannot be empty")
  ELSE LET node == get_editor_node(pa.w, op.node_path)
       IN IF node = 0 THEN Fail(pa, "delete_node: node not found")
          ELSE IF node = RootOid THEN Fail(pa, "delete_node: cannot delete root node")
          ELSE IF pa.w[node].parent <= 0 THEN Fail(pa, "delete_node: node has no parent")
          ELSE Queued(pa.w, pa.nextOid, <<DoRemoveChild(pa.w[node].parent, node)>>)

\* lines 317-340
queue_set_property(pa, op) ==
  IF op.node_path = <<>> \/ op.property = ""
  THEN Fail(pa, "set_property: node_path and property are required")
  ELSE LET node == get_editor_node(pa.w, op.node_path)
       IN IF node = 0 THEN Fail(pa, "set_property: node not found")
          ELSE IF op.property \notin DeclaredProps
          THEN Fail(pa, "set_property: property does not exist")
          ELSE Queued(pa.w, pa.nextOid, <<DoProperty(node, op.property, op.value)>>)

\* lines 342-363
queue_rename_node(pa, op) ==
  IF op.node_path = <<>> \/ op.new_name = ""
  THEN Fail(pa, "rename_node: node_path and new_name are required")
  ELSE LET node == get_editor_node(pa.w, op.node_path)
       IN IF node = 0 THEN Fail(pa, "rename_node: node not found")
          ELSE IF pa.w[node].parent > 0
                  /\ get_node_or_null(pa.w, pa.w[node].parent, op.new_name) # 0
          THEN Fail(pa, "rename_node: sibling already exists with name")
          ELSE Queued(pa.w, pa.nextOid, <<DoProperty(node, "name", op.new_name)>>)

\* lines 365-401
queue_reparent_node(pa, op) ==
  IF op.node_path = <<>> \/ op.new_parent_path = <<>>
  THEN Fail(pa, "reparent_node: node_path and new_parent_path are required")
  ELSE LET node == get_editor_node(pa.w, op.node_path)
           new_parent == get_editor_node(pa.w, op.new_parent_path)
       IN IF node = 0 THEN Fail(pa, "reparent_node: node not found")
          ELSE IF node = RootOid THEN Fail(pa, "reparent_node: cannot reparent root node")
          ELSE IF new_parent = 0 THEN Fail(pa, "reparent_node: new parent not found")
          ELSE IF pa.w[node].parent <= 0 THEN Fail(pa, "reparent_node: node has no parent")
          ELSE Queued(pa.w, pa.nextOid, <<DoReparent(node, new_parent, op.index)>>)

\* lines 211-227
queue_patch_operation(pa, op) ==
  CASE op.op = "create_node" -> queue_create_node(pa, op)
    [] op.op = "delete_node" -> queue_delete_node(pa, op)
    [] op.op = "set_property" -> queue_set_property(pa, op)
    [] op.op = "rename_node" -> queue_rename_node(pa, op)
    [] op.op = "reparent_node" -> queue_reparent_node(pa, op)
    [] OTHER -> Fail(pa, "Unknown op")

\* lines 433-470
apply_create_node_immediate(pa, op) ==
  IF op.node_name = "" THEN Fail(pa, "create_node: node_name cannot be empty")
  ELSE IF op.node_type \notin InstantiableTypes
  THEN Fail(pa, "create_node: invalid node_type")
  ELSE LET parent == get_editor_node(pa.w, op.parent_path)
       IN IF parent = 0 THEN Fail(pa, "create_node: parent not found")
          ELSE IF get_node_or_null(pa.w, parent, op.node_name) # 0
          THEN Fail(pa, "create_node: node already exists under parent")
          ELSE Queued(execAll(add_child(instantiate(pa.w, pa.nextOid, op.node_type,
                                                    op.node_name),
                                        parent, pa.nextOid),
                              createPropertyDos(pa.nextOid, op.properties), 1),
                      pa.nextOid + 1, <<>>)

\* lines 472-494
apply_delete_node_immediate(pa, op) ==
  IF op.node_path = <<>> THEN Fail(pa, "delete_node: node_path cannot be empty")
  ELSE LET node == get_editor_node(pa.w, op.node_path)
       IN IF node = 0 THEN Fail(pa, "delete_node: node not found")
          ELSE IF node = RootOid THEN Fail(pa, "delete_node: cannot delete root node")
          ELSE IF pa.w[node].parent <= 0 THEN Fail(pa, "delete_node: node has no parent")
          ELSE Queued(remove_child(pa.w, pa.w[node].parent, node), pa.nextOid, <<>>)

\* lines 496-516
apply_set_property_immediate(pa, op) ==
  IF op.node_path = <<>> \/ op.property = ""
  THEN Fail(pa, "set_property: node_path and property are required")
  ELSE LET node == get_editor_node(pa.w, op.node_path)
       IN IF node = 0 THEN Fail(pa, "set_property: node not found")
          ELSE IF op.property \notin DeclaredProps
          THEN Fail(pa, "set_property: property does not exist")
          ELSE Queued(execDo(pa.w, DoProperty(node, op.property, op.value)),
                      pa.nextOid, <<>>)

\* lines 518-537
apply_rename_node_immediate(pa, op) ==
  IF op.node_path = <<>> \/ op.new_name = ""
  THEN Fail(pa, "rename_node: node_path and new_name are required")
  ELSE LET node == get_editor_node(pa.w, op.node_path)
       IN IF node = 0 THEN Fail(pa, "rename_node: node not found")
          ELSE IF pa.w[node].parent > 0
                  /\ get_node_or_null(pa.w, pa.w[node].parent, op.new_name) # 0
          THEN Fail(pa, "rename_node: sibling already exists with name")
          ELSE Queued(set_name(pa.w, node, op.new_name), pa.nextOid, <<>>)

\* a variant of apply_reparent_node_immediate that lets the root through
apply_reparent_node_immediateAnyNode(pa, op) ==
  IF op.node_path = <<>> \/ op.new_parent_path = <<>>
  THEN Fail(pa, "reparent_node: node_path and new_parent_path are required")
  ELSE LET node == get_editor_node(pa.w, op.node_path)
           new_parent == get_editor_node(pa.w, op.new_parent_path)
       IN IF node = 0 THEN Fail(pa, "reparent_node: node not found")
          ELSE IF new_parent = 0 THEN Fail(pa, "reparent_node: new parent not found")
          ELSE Queued(reparent_node_internal(pa.w, node, new_parent, op.index),
                      pa.nextOid, <<>>)

\* lines 539-568
apply_reparent_node_immediate(pa, op) ==
  IF op.node_path = <<>> \/ op.new_parent_path = <<>>
  THEN Fail(pa, "reparent_node: node_path and new_parent_path are required")
  ELSE LET node == get_editor_node(pa.w, op.node_path)
           new_parent == get_editor_node(pa.w, op.new_parent_path)
       IN IF node = 0 THEN Fail(pa, "reparent_node: node not found")
          ELSE IF node = RootOid THEN Fail(pa, "reparent_node: cannot reparent root node")
          ELSE IF new_parent = 0 THEN Fail(pa, "reparent_node: new parent not found")
          ELSE Queued(reparent_node_internal(pa.w, node, new_parent, op.index),
                      pa.nextOid, <<>>)

\* lines 229-245
apply_patch_operation_immediate(pa, op) ==
  CASE op.op = "create_node" -> apply_create_node_immediate(pa, op)
    [] op.op = "delete_node" -> apply_delete_node_immediate(pa, op)
    [] op.op = "set_property" -> apply_set_property_immediate(pa, op)
    [] op.op = "rename_node" -> apply_rename_node_immediate(pa, op)
    [] op.op = "reparent_node" -> apply_reparent_node_immediate(pa, op)
    [] OTHER -> Fail(pa, "Unknown op")

\* a variant of patchCount that never leaves the loop
patchCountNoBreak(ls, r, strict, undo_redo) ==
  [w |-> r.w, nextOid |-> r.nextOid,
   errors |-> IF r.ok THEN ls.errors ELSE Append(ls.errors, r.error),
   queued |-> IF r.ok /\ undo_redo THEN ls.queued + 1 ELSE ls.queued,
   applied |-> IF r.ok /\ ~undo_redo THEN ls.applied + 1 ELSE ls.applied,
   dos |-> ls.dos \o r.dos,
   attempted |-> ls.attempted + 1,
   stop |-> FALSE]

\* lines 168 and 172-185: the counters after the outcome r of one operation;
\* ls is the loop state
patchCount(ls, r, strict, undo_redo) ==
  [w |-> r.w, nextOid |-> r.nextOid,
   errors |-> IF r.ok THEN ls.errors ELSE Append(ls.errors, r.error),
   queued |-> IF r.ok /\ undo_redo THEN ls.queued + 1 ELSE ls.queued,
   applied |-> IF r.ok /\ ~undo_redo THEN ls.applied + 1 ELSE ls.applied,
   dos |-> ls.dos \o r.dos,
   attempted |-> ls.attempted + 1,
   stop |-> ~r.ok /\ strict]

\* one iteration of the loop of lines 167-185
patchStep(ls, op, strict, undo_redo) ==
  patchCount(ls,
             IF undo_redo
             THEN queue_patch_operation([w |-> ls.w, nextOid |-> ls.nextOid], op)
             ELSE apply_patch_operation_immediate([w |-> ls.w, nextOid |-> ls.nextOid], op),
             strict, undo_redo)

RECURSIVE patchLoop(_, _, _, _, _)
patchLoop(ls, operations, i, strict, undo_redo) ==
  IF i > Len(operations) \/ ls.stop THEN ls
  ELSE patchLoop(patchStep(ls, operations[i], strict, undo_redo), operations, i + 1,
                 strict, undo_redo)

(***************************************************************************)
(* EditorUndoRedoManager, as far as the applicator drives it.  um is       *)
(* [pending, level]: pending says that the pending action has a history    *)
(* (its first step was added), level is the nesting depth of the actions   *)
(* that were created on that history and not committed.                    *)
(***************************************************************************)

\* create_action: nests into a pending action that has a history
create_action(um) == IF um.pending THEN [um EXCEPT !.level = @ + 1] ELSE um

\* the first add_do_* of a pending action binds it to the scene history
add_do(um, dos) ==
  IF dos # <<>> /\ ~um.pending THEN [pending |-> TRUE, level |-> um.level + 1] ELSE um

\* commit_action: no-op for an empty action; executes only at nesting depth 0
commit_action(um) ==
  IF ~um.pending THEN [um |-> um, executes |-> FALSE]
  ELSE IF um.level > 1 THEN [um |-> [um EXCEPT !.level = @ - 1], executes |-> FALSE]
  ELSE [um |-> [pending |-> FALSE, level |-> 0], executes |-> TRUE]

\* a variant of commitsAction that commits whatever the loop recorded
commitsActionAlways(strict, errors) == TRUE

\* lines 188-192: a strict batch with errors is not committed
commitsAction(strict, errors) == ~(strict /\ Len(errors) > 0)

\* lines 187-209: the action is committed or left, and the response is built;
\* ls is the state the loop ended in, um2 the undo manager after the loop and
\* c what commit_action would do
patchResponse(ls, um2, c, operations, strict, undo_redo) ==
  LET commits == undo_redo /\ commitsAction(strict, ls.errors)
      failed == strict /\ Len(ls.errors) > 0
  IN [live |-> sceneOf(IF commits /\ c.executes THEN execAll(ls.w, ls.dos, 1) ELSE ls.w),
      nextOid |-> ls.nextOid,
      um |-> IF commits THEN c.um ELSE um2,
      response |-> [status |-> IF failed THEN "error" ELSE "success",
                    message |-> IF failed THEN ls.errors[1] ELSE "",
                    applied |-> IF commits THEN ls.queued ELSE ls.applied,
                    total |-> Len(operations),
                    errors |-> ls.errors, attempted |-> ls.attempted,
                    used_undo_redo |-> undo_redo]]

\* lines 198-209: what the editor sends for a response.  A strict batch with
\* errors is answered by _send_error with the first error alone; any other by
\* _send_success with the counts and the errors (an absent list is empty).
wireResponse(response) ==
  IF response.status = "error"
  THEN [status |-> "error", message |-> response.message]
  ELSE [status |-> "success",
        result |-> [applied |-> response.applied, total |-> response.total,
                    used_undo_redo |-> response.used_undo_redo,
                    errors |-> response.errors]]

\* lines 164-192: the undo manager around the loop; ls is the state the loop
\* ended in
patchCommit(ls, um, operations, strict, undo_redo) ==
  LET um2 == IF undo_redo THEN add_do(create_action(um), ls.dos) ELSE um
  IN patchResponse(ls, um2, commit_action(um2), operations, strict, undo_redo)

\* lines 143-209.  Returns the scene, the instance counter, the undo manager
\* and the response after the call.
apply_scene_patch(scene, nextOid, um, operations, strict, undo_redo) ==
  IF operations = <<>>
  THEN [live |-> scene, nextOid |-> nextOid, um |-> um,
        response |-> [status |-> "error", message |-> "operations must be a non-empty array",
                      applied |-> 0, total |-> 0, errors |-> <<>>, attempted |-> 0,
                      used_undo_redo |-> undo_redo]]
  ELSE patchCommit(patchLoop([w |-> scene, nextOid |-> nextOid, errors |-> <<>>,
                              queued |-> 0, applied |-> 0, dos |-> <<>>, attempted |-> 0,
                              stop |-> FALSE],
                             operations, 1, strict, undo_redo),
                   um, operations, strict, undo_redo)

(***************************************************************************)
(* get_edited_scene_structure: scene_commands.gd lines 62-141               *)
(***************************************************************************)

\* _get_mcp_id: "" (here 0) when the node carries no id group
get_mcp_id(w, node) == w[node].mcp_id

\* _get_or_create_mcp_id: the id joins ticks, a random number and the
\* instance id; the instance id stands for it
get_or_create_mcp_id(w, node) ==
  IF get_mcp_id(w, node) # 0 THEN [w |-> w, id |-> get_mcp_id(w, node)]
  ELSE [w |-> [w EXCEPT ![node].mcp_id = node], id |-> node]

\* the ids that a snapshot with ensure_ids leaves on the nodes
RECURSIVE ensureIds(_, _)
ensureIds(w, todo) ==
  IF todo = {} THEN w
  ELSE LET n == CHOOSE m \in todo : TRUE
       IN ensureIds(get_or_create_mcp_id(w, n).w, todo \ {n})

\* _get_node_structure_for_patch on a tree whose ids are settled
RECURSIVE get_node_structure_for_patch(_, _, _, _, _)
get_node_structure_for_patch(w, node, rel_path, include_properties, properties) ==
  [name |-> w[node].name,
   type |-> w[node].type,
   path |-> rel_path,
   id |-> get_mcp_id(w, node),
   hasProps |-> include_properties /\ Len(properties) > 0,
   props |-> IF include_properties /\ Len(properties) > 0
             THEN LET declared == SelectSeq(properties, LAMBDA k : k \in DeclaredProps)
                  IN [i \in DOMAIN declared |-> <<declared[i], w[node].p>>]
             ELSE <<>>,
   children |-> [i \in DOMAIN w[node].kids |->
      get_node_structure_for_patch(w, w[node].kids[i],
         Append(rel_path, w[w[node].kids[i]].name), include_properties, properties)]]

\* _get_edited_scene_structure: the scene after the call and the structure sent
get_edited_scene_structure(scene, include_properties, properties, ensure_ids) ==
  LET w == IF ensure_ids THEN ensureIds(scene, DOMAIN scene) ELSE scene
  IN [live |-> w,
      structure |-> get_node_structure_for_patch(w, RootOid, RootPath,
                                                 include_properties, properties)]

(***************************************************************************)
(* The id resolver: scene_tools.ts lines 97-297.  An operation of a caller *)
(* carries node_path/node_id, parent_path/parent_id and                    *)
(* new_parent_path/new_parent_id; an absent path is <<>>, an absent id 0.  *)
(***************************************************************************)

ApplyCreate(parentPath, parentId, nodeType, nodeName) ==
  [op |-> "create_node", parent_path |-> parentPath, parent_id |-> parentId,
   node_type |-> nodeType, node_name |-> nodeName, properties |-> <<>>]

ApplyDelete(nodePath, nodeId) ==
  [op |-> "delete_node", node_path |-> nodePath, node_id |-> nodeId]

ApplySetProperty(nodePath, nodeId, property, value) ==
  [op |-> "set_property", node_path |-> nodePath, node_id |-> nodeId,
   property |-> property, value |-> value]

ApplyRename(nodePath, nodeId, newName) ==
  [op |-> "rename_node", node_path |-> nodePath, node_id |-> nodeId, new_name |-> newName]

ApplyReparent(nodePath, nodeId, newParentPath, newParentId, index) ==
  [op |-> "reparent_node", node_path |-> nodePath, node_id |-> nodeId,
   new_parent_path |-> newParentPath, new_parent_id |-> newParentId, index |-> index]

\* lines 101-132: the first operation that misses a required field
missingField(op) ==
  CASE op.op = "create_node" -> op.node_name = ""
    [] op.op = "reparent_node" ->
         (op.node_path = <<>> /\ op.node_id = 0)
         \/ (op.new_parent_path = <<>> /\ op.new_parent_id = 0)
    [] OTHER -> op.node_path = <<>> /\ op.node_id = 0

\* lines 134-139
needsIds(operations) ==
  \E i \in DOMAIN operations :
     LET op == operations[i]
     IN \/ op.op = "create_node" /\ op.parent_id # 0
        \/ op.op # "create_node" /\ op.node_id # 0
        \/ op.op = "reparent_node" /\ op.new_parent_id # 0

\* lines 141-167; create_node keeps an absent parent_path for Godot's default
normalizeWithoutIds(op) ==
  CASE op.op = "create_node" ->
         OpCreate(IF op.parent_path = <<>> THEN RootPath ELSE op.parent_path,
                  op.node_type, op.node_name, op.properties)
    [] op.op = "delete_node" -> OpDelete(op.node_path)
    [] op.op = "set_property" -> OpSetProperty(op.node_path, op.property, op.value)
    [] op.op = "rename_node" -> OpRename(op.node_path, op.new_name)
    [] op.op = "reparent_node" -> OpReparent(op.node_path, op.new_parent_path, op.index)

\* lines 177-182: preorder, a later node of the same id wins
RECURSIVE indexIds(_, _)
RECURSIVE indexIdsEach(_, _, _)
indexIdsEach(children, i, map) ==
  IF i > Len(children) THEN map
  ELSE indexIdsEach(children, i + 1, indexIds(children[i], map))

indexIds(node, map) ==
  indexIdsEach(node.children, 1,
    IF node.id # 0
    THEN [k \in DOMAIN map \cup {node.id} |-> IF k = node.id THEN node.path ELSE map[k]]
    ELSE map)

mapSet(map, id, path) == [k \in DOMAIN map \cup {id} |-> IF k = id THEN path ELSE map[k]]

\* a variant of mapDelete that keeps the entry
mapDeleteKeeps(map, id) == map

mapDelete(map, id) == [k \in DOMAIN map \ {id} |-> map[k]]

\* a variant of resolveIdToPath that lets an unknown id pass with the path given
resolveIdToPathUnknownPasses(map, id, path, label, default) ==
  IF id = 0 \/ id \notin DOMAIN map
  THEN [ok |-> TRUE, error |-> "", id |-> 0, path |-> IF path = <<>> THEN default ELSE path]
  ELSE IF path # <<>> /\ path # map[id]
  THEN [ok |-> FALSE, error |-> "id resolves to another path", id |-> id, path |-> <<>>]
  ELSE [ok |-> TRUE, error |-> "", id |-> 0, path |-> map[id]]

\* a variant of resolveIdToPath that prefers the id to a path that disagrees
resolveIdToPathPrefersId(map, id, path, label, default) ==
  IF id = 0 THEN [ok |-> TRUE, error |-> "", id |-> 0, path |-> IF path = <<>> THEN default ELSE path]
  ELSE IF id \notin DOMAIN map
  THEN [ok |-> FALSE, error |-> "id not found in edited scene", id |-> id, path |-> <<>>]
  ELSE [ok |-> TRUE, error |-> "", id |-> 0, path |-> map[id]]

\* lines 184-188 and the id/path comparison that follows every use of it:
\* [ok, error, path] for one id/path field pair
resolveIdToPath(map, id, path, label, default) ==
  IF id = 0 THEN [ok |-> TRUE, error |-> "", id |-> 0, path |-> IF path = <<>> THEN default ELSE path]
  ELSE IF id \notin DOMAIN map
  THEN [ok |-> FALSE, error |-> "id not found in edited scene", id |-> id, path |-> <<>>]
  ELSE IF path # <<>> /\ path # map[id]
  THEN [ok |-> FALSE, error |-> "id resolves to another path", id |-> id, path |-> <<>>]
  ELSE [ok |-> TRUE, error |-> "", id |-> 0, path |-> map[id]]

\* lines 191-294: one operation; rs is [ok, error, id, map, resolved]
resolveOne(rs, op) ==
  LET bad(r) == [rs EXCEPT !.ok = FALSE, !.error = r.error, !.id = r.id]
  IN
  CASE op.op = "create_node" ->
         LET r == resolveIdToPath(rs.map, op.parent_id, op.parent_path, "parent", RootPath)
         IN IF ~r.ok THEN bad(r)
            ELSE [rs EXCEPT !.resolved = Append(@,
                    OpCreate(r.path, op.node_type, op.node_name, op.properties))]
    [] op.op = "delete_node" ->
         LET r == resolveIdToPath(rs.map, op.node_id, op.node_path, "node", <<>>)
         IN IF ~r.ok THEN bad(r)
            ELSE [rs EXCEPT !.resolved = Append(@, OpDelete(r.path)),
                            !.map = IF op.node_id # 0 THEN mapDelete(@, op.node_id) ELSE @]
    [] op.op = "set_property" ->
         LET r == resolveIdToPath(rs.map, op.node_id, op.node_path, "node", <<>>)
         IN IF ~r.ok THEN bad(r)
            ELSE [rs EXCEPT !.resolved = Append(@,
                    OpSetProperty(r.path, op.property, op.value))]
    [] op.op = "rename_node" ->
         LET r == resolveIdToPath(rs.map, op.node_id, op.node_path, "node", <<>>)
         IN IF ~r.ok THEN bad(r)
            ELSE [rs EXCEPT !.resolved = Append(@, OpRename(r.path, op.new_name)),
                            !.map = IF op.node_id # 0
                                    THEN mapSet(@, op.node_id,
                                                Append(Front(r.path), op.new_name))
                                    ELSE @]
    [] op.op = "reparent_node" ->
         LET r == resolveIdToPath(rs.map, op.node_id, op.node_path, "node", <<>>)
         IN IF ~r.ok THEN bad(r)
            ELSE LET q == resolveIdToPath(rs.map, op.new_parent_id, op.new_parent_path,
                                          "new_parent", <<>>)
                 IN IF ~q.ok THEN bad(q)
                    ELSE [rs EXCEPT
                       !.resolved = Append(@, OpReparent(r.path, q.path, op.index)),
                       !.map = IF op.node_id # 0 /\ q.path # <<>>
                               THEN mapSet(@, op.node_id, Append(q.path, Last(r.path)))
                               ELSE @]

RECURSIVE resolveLoop(_, _, _)
resolveLoop(rs, operations, i) ==
  IF i > Len(operations) \/ ~rs.ok THEN rs
  ELSE resolveLoop(resolveOne(rs, operations[i]), operations, i + 1)

\* lines 97-297: the scene after the call (the snapshot may assign ids), and
\* [ok, error, id, map, resolved]
resolveScenePatchOperations(scene, operations) ==
  IF \E i \in DOMAIN operations : missingField(operations[i])
  THEN [live |-> scene,
        r |-> [ok |-> FALSE, error |-> "missing required field", id |-> 0,
               map |-> <<>>, resolved |-> <<>>]]
  ELSE IF ~needsIds(operations)
  THEN [live |-> scene,
        r |-> [ok |-> TRUE, error |-> "", id |-> 0, map |-> <<>>,
               resolved |-> [i \in DOMAIN operations |-> normalizeWithoutIds(operations[i])]]]
  ELSE LET edited == get_edited_scene_structure(scene, FALSE, <<>>, TRUE)
       IN [live |-> edited.live,
           r |-> resolveLoop([ok |-> TRUE, error |-> "", id |-> 0,
                              map |-> indexIds(edited.structure, <<>>),
                              resolved |-> <<>>], operations, 1)]

\* lines 480-493: the resolved operations rr go to the editor; a failed
\* resolution is answered without a command
sendResolved(gd, rr, strict) ==
  IF rr.r.ok
  THEN [r |-> rr.r, sent |-> TRUE]
       @@ apply_scene_patch(rr.live, gd.nextOid, gd.um, rr.r.resolved, strict, gd.undo_redo)
  ELSE [live |-> rr.live, nextOid |-> gd.nextOid, um |-> gd.um, r |-> rr.r,
        sent |-> FALSE,
        response |-> [status |-> "error", message |-> rr.r.error, applied |-> 0,
                      total |-> 0, errors |-> <<>>, attempted |-> 0,
                      used_undo_redo |-> gd.undo_redo]]

\* the apply_scene_patch tool, lines 478-494: the operations are resolved and,
\* when that succeeds, sent to the editor; gd is [live, nextOid, um, undo_redo].
\* Returns [live, nextOid, um, r, sent, response]
apply_scene_patch_execute(gd, operations, strict) ==
  sendResolved(gd, resolveScenePatchOperations(gd.live, operations), strict)

(***************************************************************************)
(* generate_scene_patch: scene_tools.ts lines 511-631                      *)
(***************************************************************************)

AppendNew(seq, x) == IF \E i \in DOMAIN seq : seq[i] = x THEN seq ELSE Append(seq, x)

RECURSIVE AppendAllNew(_, _, _)
AppendAllNew(seq, xs, i) ==
  IF i > Len(xs) THEN seq ELSE AppendAllNew(AppendNew(seq, xs[i]), xs, i + 1)

\* lines 523-528
RECURSIVE collectDesiredPropertyNames(_, _, _)
collectDesiredPropertyNames(nodes, i, into) ==
  IF i > Len(nodes) THEN into
  ELSE collectDesiredPropertyNames(nodes, i + 1,
         collectDesiredPropertyNames(nodes[i].children, 1,
            AppendAllNew(into,
               [k \in DOMAIN nodes[i].properties |-> nodes[i].properties[k][1]], 1)))

\* lines 561-562: Map newPath -> oldPath, a later alias of the same newPath wins
reverseAliasGet(aliases, path) ==
  LET hit == {i \in DOMAIN aliases : aliases[i][2] = path}
  IN IF hit = {} THEN path
     ELSE aliases[CHOOSE i \in hit : \A j \in hit : j <= i][1]

\* lines 567-576: the properties objects of the snapshot, by path
RECURSIVE buildPropsIndex(_, _)
RECURSIVE buildPropsIndexEach(_, _, _)
buildPropsIndexEach(children, i, idx) ==
  IF i > Len(children) THEN idx
  ELSE buildPropsIndexEach(children, i + 1, buildPropsIndex(children[i], idx))

buildPropsIndex(node, idx) ==
  buildPropsIndexEach(node.children, 1,
     IF node.hasProps THEN aliasSet(idx, node.path, node.props) ELSE idx)

\* the get_node_properties command: every property of the node at the path,
\* or no result when there is no such node
get_node_properties(scene, path) ==
  LET node == get_editor_node(scene, path)
  IN IF node = 0 THEN [ok |-> FALSE, props |-> <<>>]
     ELSE [ok |-> TRUE, props |-> <<<<"p", scene[node].p>>>>]

\* lines 578-588
getNodeProps(propsByPath, scene, nodePath) ==
  IF aliasHas(propsByPath, nodePath)
  THEN [ok |-> TRUE, props |-> aliasGet(propsByPath, nodePath)]
  ELSE get_node_properties(scene, nodePath)

\* a variant of filterKeeps that drops a set_property whose lookup finds nothing
filterKeepsFound(op, aliases, propsByPath, scene) ==
  IF op.op # "set_property" THEN TRUE
  ELSE LET r == getNodeProps(propsByPath, scene, reverseAliasGet(aliases, op.node_path))
       IN IF ~r.ok \/ ~aliasHas(r.props, op.property) THEN FALSE
          ELSE stableStringify(aliasGet(r.props, op.property)) # stableStringify(op.value)

\* a variant of filterKeeps that keeps every operation
filterKeepsAll(op, aliases, propsByPath, scene) == TRUE

\* lines 591-610: does the filter keep this operation?
filterKeeps(op, aliases, propsByPath, scene) ==
  IF op.op # "set_property" THEN TRUE
  ELSE LET r == getNodeProps(propsByPath, scene, reverseAliasGet(aliases, op.node_path))
       IN IF ~r.ok \/ ~aliasHas(r.props, op.property) THEN TRUE
          ELSE stableStringify(aliasGet(r.props, op.property)) # stableStringify(op.value)

\* lines 566-612
filterOperations(operations, aliases, structure, scene) ==
  LET propsByPath == buildPropsIndex(structure, <<>>)
  IN SelectSeq(operations, LAMBDA op : filterKeeps(op, aliases, propsByPath, scene))

\* lines 578-611: the get_node_properties requests that the filter loop sends,
\* in order; a lookup that succeeds is stored in propsByPath (line 583), one
\* that fails is not (lines 585-587)
RECURSIVE filterRequests(_, _, _, _, _, _)
filterRequests(operations, i, aliases, propsByPath, scene, requests) ==
  IF i > Len(operations) THEN requests
  ELSE IF operations[i].op # "set_property"
            \/ aliasHas(propsByPath, reverseAliasGet(aliases, operations[i].node_path))
  THEN filterRequests(operations, i + 1, aliases, propsByPath, scene, requests)
  ELSE LET nodePath == reverseAliasGet(aliases, operations[i].node_path)
           result == get_node_properties(scene, nodePath)
       IN filterRequests(operations, i + 1, aliases,
             IF result.ok THEN aliasSet(propsByPath, nodePath, result.props) ELSE propsByPath,
             scene, Append(requests, nodePath))

\* lines 614-631: the patch is applied when asked and not empty, and the
\* result is built; a is the editor's answer to the operations
generateResult(gd, args, edited, g, operations, a) ==
  LET thrown == args.strict_types /\ Len(g.errors) > 0
      sends == ~thrown /\ args.apply /\ Len(operations) > 0
  IN [live |-> IF sends THEN a.live ELSE edited.live,
      nextOid |-> IF sends THEN a.nextOid ELSE gd.nextOid,
      um |-> IF sends THEN a.um ELSE gd.um,
      out |-> [status |-> IF thrown \/ (sends /\ a.response.status = "error")
                          THEN "error" ELSE "success",
               operations |-> IF thrown THEN <<>> ELSE operations,
               generated |-> g.operations,
               errors |-> g.errors,
               aliases |-> g.aliases,
               structure |-> edited.structure,
               requests |-> IF thrown \/ ~args.diff_properties THEN <<>>
                            ELSE filterRequests(g.operations, 1, g.aliases,
                                    buildPropsIndex(edited.structure, <<>>), edited.live, <<>>),
               sent |-> sends,
               applied |-> IF sends THEN a.response.applied ELSE 0,
               total |-> IF sends THEN a.response.total ELSE 0]]

\* lines 618-624: the operations go to the editor with strict: true
generateApply(gd, args, edited, g, operations) ==
  generateResult(gd, args, edited, g, operations,
     apply_scene_patch(edited.live, gd.nextOid, gd.um, operations, TRUE, gd.undo_redo))

\* lines 557-612: the diff g of the snapshot is filtered
generateFilter(gd, args, edited, g) ==
  generateApply(gd, args, edited, g,
     IF args.diff_properties
     THEN filterOperations(g.operations, g.aliases, edited.structure, edited.live)
     ELSE g.operations)

\* lines 550-555: the snapshot is diffed against the desired tree
generateDiff(gd, args, edited) ==
  generateFilter(gd, args, edited,
     generateScenePatch(edited.structure, args.desired, args))

\* lines 530-548: the snapshot is taken, with the properties named
generateFromNames(gd, args, names) ==
  generateDiff(gd, args,
     get_edited_scene_structure(gd.live, args.diff_properties /\ Len(names) > 0,
                                names, TRUE))

\* lines 511-631.  args is [desired, allow_delete, strict_types, detect_renames,
\* reorder_children, diff_properties, apply]; gd is [live, nextOid, um, undo_redo]
generate_scene_patch(gd, args) ==
  generateFromNames(gd, args,
     IF args.diff_properties THEN collectDesiredPropertyNames(args.desired, 1, <<>>)
     ELSE <<>>)

(***************************************************************************)
(* The state: the edited scene and the undo/redo manager of the editor,    *)
(* the command in flight to the editor and the reply in flight back.       *)
(***************************************************************************)

VARIABLES live, nextOid, um, undo_redo, commandId, msg, reply, conn

vars == <<live, nextOid, um, undo_redo, commandId, msg, reply, conn>>

\* instances ever created in one run, the root included
MaxOid == 5

\* operations in one batch
MaxOps == 2

\* undo/redo actions left open
MaxLevel == 2

\* commands one connection sends
MaxCommands == 2

None == [kind |-> "none"]

\* the connection of the server to the editor where its state plays no part
NoConnection == [connected |-> TRUE]

Node(name, type, parent, kids, mcp_id) ==
  [name |-> name, type |-> type, parent |-> parent, kids |-> kids, mcp_id |-> mcp_id,
   p |-> JNum(0)]

\* /root with the children A (which has the child B) and B
InitScene ==
  (1 :> Node("Root", "Node", NoParent, <<2, 4>>, 0)) @@ (2 :> Node("A", "Node2D", 1, <<3>>, 0))
  @@ (3 :> Node("B", "Node", 2, <<>>, 0)) @@ (4 :> Node("B", "Node", 1, <<>>, 0))

SeqsUpTo(S, n) == UNION {[1..k -> S] : k \in 1..n}

NumCreates(operations) ==
  Cardinality({i \in DOMAIN operations : operations[i].op = "create_node"})

\* the operations a caller of the editor command may put in a batch
PatchOps ==
  {OpCreate(pp, "Node", n, <<>>) : pp \in {RootPath, <<"root", "A">>}, n \in {"B", "C"}}
  \cup {OpCreate(RootPath, "Bogus", "C", <<>>)}
  \cup {OpDelete(np) : np \in {RootPath, <<"root", "A">>, <<"root", "A", "B">>,
                               <<"root", "C">>}}
  \cup {OpSetProperty(np, pr, JNum(1)) : np \in {<<"root", "A">>, <<"root", "C">>},
                                         pr \in {"p", "q"}}
  \cup {OpRename(np, n) : np \in {<<"root", "A">>, <<"root", "B">>}, n \in {"B", "C"}}
  \cup {OpReparent(np, pp, i) : np \in {RootPath, <<"root", "B">>, <<"root", "A", "B">>},
                                pp \in {RootPath, <<"root", "A">>}, i \in {-1, 0}}

Init ==
  /\ live = InitScene
  /\ nextOid = 5
  /\ um = [pending |-> FALSE, level |-> 0]
  /\ undo_redo \in BOOLEAN
  /\ commandId = 0
  /\ msg = None
  /\ reply = None
  /\ conn = NoConnection

\* a client sends the apply_scene_patch command
SendApplyScenePatch ==
  /\ msg = None /\ reply = None
  /\ commandId < MaxCommands
  /\ um.level < MaxLevel
  /\ commandId' = commandId + 1
  /\ \E operations \in SeqsUpTo(PatchOps, MaxOps), strict \in BOOLEAN :
        /\ nextOid + NumCreates(operations) <= MaxOid + 1
        /\ msg' = [kind |-> "apply_scene_patch", operations |-> operations,
                   strict |-> strict]
  /\ UNCHANGED <<live, nextOid, um, undo_redo, reply, conn>>

\* the editor runs _apply_scene_patch on it
HandleApplyScenePatch ==
  /\ msg.kind = "apply_scene_patch"
  /\ \E a \in {apply_scene_patch(live, nextOid, um, msg.operations, msg.strict, undo_redo)} :
        /\ live' = a.live
        /\ nextOid' = a.nextOid
        /\ um' = a.um
        /\ reply' = [kind |-> "apply_scene_patch", operations |-> msg.operations,
                     strict |-> msg.strict, before |-> live, um_before |-> um,
                     response |-> a.response, wire |-> wireResponse(a.response)]
  /\ msg' = None
  /\ UNCHANGED <<undo_redo, commandId, conn>>

\* the client takes the reply
ReceiveReply ==
  /\ reply # None
  /\ reply' = None
  /\ UNCHANGED <<live, nextOid, um, undo_redo, commandId, msg, conn>>

Next == SendApplyScenePatch \/ HandleApplyScenePatch \/ ReceiveReply

Spec == Init /\ [][Next]_vars

(***************************************************************************)
(* The generate_scene_patch tool on one scene and one desired tree         *)
(* (SpecDiff: the diff alone; SpecRoundTrip: the diff applied).            *)
(***************************************************************************)

Types == {"Node", "Node2D"}

\* children of the root, in a scene and in a desired tree
MaxTops == 2

\* the children of the root of a scene: A with or without the child B, and B
LiveTops ==
  {[name |-> "A", type |-> t, kid |-> k] : t \in Types, k \in {"", "B"}}
  \cup {[name |-> "B", type |-> t, kid |-> ""] : t \in Types}

DistinctNames(s) == \A i, j \in DOMAIN s : i # j => s[i].name # s[j].name

LiveForms == {<<>>} \cup {s \in SeqsUpTo(LiveTops, MaxTops) : DistinctNames(s)}

\* the scene of a form: the i-th child of the root is instance 2i, its child
\* 2i+1; every node carries the id that an earlier snapshot gave it
buildScene(form) ==
  LET tops == {2 * i : i \in DOMAIN form}
      kids == {2 * i + 1 : i \in {j \in DOMAIN form : form[j].kid # ""}}
  IN [n \in {RootOid} \cup tops \cup kids |->
        IF n = RootOid
        THEN Node("Root", "Node", NoParent, [i \in DOMAIN form |-> 2 * i], RootOid)
        ELSE IF n \in tops
        THEN Node(form[n \div 2].name, form[n \div 2].type, RootOid,
                  IF form[n \div 2].kid # "" THEN <<n + 1>> ELSE <<>>, n)
        ELSE Node(form[n \div 2].kid, "Node", n - 1, <<>>, n)]

LiveScenes == {buildScene(f) : f \in LiveForms}

DNode(name, type, id, properties, hasChildren, children) ==
  [name |-> name, type |-> type, id |-> id, properties |-> properties,
   hasChildren |-> hasChildren, children |-> children]

DesiredLeaf == DNode("B", "", 0, <<>>, FALSE, <<>>)

\* what a desired child of the root asks for besides its name and type: nothing,
\* the property p, no children, or the one child B
DesiredShapes ==
  {<<<<>>, FALSE, <<>>>>, <<<<<<"p", JNum(1)>>>>, FALSE, <<>>>>,
   <<<<>>, TRUE, <<>>>>, <<<<>>, TRUE, <<DesiredLeaf>>>>}

DesiredTops ==
  {DNode(n, t, 0, c[1], c[2], c[3]) :
     n \in {"A", "C"}, t \in {"", "Node2D"}, c \in DesiredShapes}
  \cup {DNode("B", t, 0, <<>>, FALSE, <<>>) : t \in {"", "Node2D"}}

DesiredTrees == {<<>>} \cup {s \in SeqsUpTo(DesiredTops, MaxTops) : DistinctNames(s)}

\* a scene expressed as its own desired form: names, types, the property p,
\* the children in their order, and the ids
RECURSIVE OwnForm(_, _)
OwnForm(w, node) ==
  [i \in DOMAIN w[node].kids |->
     LET k == w[node].kids[i]
     IN DNode(w[k].name, w[k].type, w[k].mcp_id, <<<<"p", w[k].p>>>>, TRUE, OwnForm(w, k))]

\* the own form with one child of the root given a name that no sibling carries
PinnedForms(w) ==
  UNION {{[OwnForm(w, RootOid) EXCEPT ![i].name = n] :
            n \in {"A", "B", "C"} \ {w[k].name : k \in Range(w[RootOid].kids)}} :
         i \in DOMAIN w[RootOid].kids}

DesiredInputs(w) == DesiredTrees \cup {OwnForm(w, RootOid)} \cup PinnedForms(w)

GenerateArgs(desired, ad, st, dr, rc, dp, apply) ==
  [desired |-> desired, allow_delete |-> ad, strict_types |-> st, detect_renames |-> dr,
   reorder_children |-> rc, diff_properties |-> dp, apply |-> apply]

InitDiff ==
  /\ live \in LiveScenes
  /\ nextOid = 6
  /\ um = [pending |-> FALSE, level |-> 0]
  /\ undo_redo = TRUE
  /\ commandId = 0
  /\ msg = None
  /\ reply = None
  /\ conn = NoConnection

InitRoundTrip ==
  /\ live \in LiveScenes
  /\ nextOid = 6
  /\ um = [pending |-> FALSE, level |-> 0]
  /\ undo_redo \in BOOLEAN
  /\ commandId = 0
  /\ msg = None
  /\ reply = None
  /\ conn = NoConnection

\* a client calls the generate_scene_patch tool without apply
CallGenerateScenePatch ==
  /\ msg = None /\ reply = None
  /\ commandId = 0
  /\ commandId' = 1
  /\ \E desired \in DesiredInputs(live), ad, st, dr, rc, dp \in BOOLEAN :
        msg' = [kind |-> "generate_scene_patch",
                args |-> GenerateArgs(desired, ad, st, dr, rc, dp, FALSE)]
  /\ UNCHANGED <<live, nextOid, um, undo_redo, reply, conn>>

\* a client calls the generate_scene_patch tool with apply
CallGenerateAndApply ==
  /\ msg = None /\ reply = None
  /\ commandId = 0
  /\ commandId' = 1
  /\ \E desired \in DesiredInputs(live), ad, st, dr, rc \in BOOLEAN :
        msg' = [kind |-> "generate_scene_patch",
                args |-> GenerateArgs(desired, ad, st, dr, rc, TRUE, TRUE)]
  /\ UNCHANGED <<live, nextOid, um, undo_redo, reply, conn>>

\* the tool runs: snapshot, diff, filter and, when asked, apply
HandleGenerateScenePatch ==
  /\ msg.kind = "generate_scene_patch"
  /\ \E g \in {generate_scene_patch([live |-> live, nextOid |-> nextOid, um |-> um,
                                      undo_redo |-> undo_redo], msg.args)} :
        /\ live' = g.live
        /\ nextOid' = g.nextOid
        /\ um' = g.um
        /\ reply' = [kind |-> "generate_scene_patch", args |-> msg.args,
                     before |-> live, out |-> g.out]
  /\ msg' = None
  /\ UNCHANGED <<undo_redo, commandId, conn>>

NextDiff == CallGenerateScenePatch \/ HandleGenerateScenePatch \/ ReceiveReply

SpecDiff == InitDiff /\ [][NextDiff]_vars

NextRoundTrip == CallGenerateAndApply \/ HandleGenerateScenePatch \/ ReceiveReply

SpecRoundTrip == InitRoundTrip /\ [][NextRoundTrip]_vars

(***************************************************************************)
(* The apply_scene_patch tool on operations addressed by id or by path     *)
(* (SpecResolve).                                                          *)
(***************************************************************************)

\* ids that no node of the scene carries
StaleIds == {9}

\* the node of an operation: a path (<<>>: none) and an id (0: none)
NodeAddrs ==
  {<<np, id>> : np \in {<<>>, <<"root", "A">>, <<"root", "A", "B">>},
                id \in {0, 1, 2, 3} \cup StaleIds}

\* the parent of a create_node, the new parent of a reparent_node
ParentAddrs ==
  {<<pp, id>> : pp \in {<<>>, RootPath, <<"root", "A">>}, id \in {0, 1} \cup StaleIds}

ToolOps ==
  {ApplyDelete(a[1], a[2]) : a \in NodeAddrs}
  \cup {ApplySetProperty(a[1], a[2], "p", JNum(1)) : a \in NodeAddrs}
  \cup {ApplyRename(a[1], a[2], "C") : a \in NodeAddrs}
  \cup {ApplyReparent(a[1], a[2], b[1], b[2], -1) : a \in NodeAddrs, b \in ParentAddrs}
  \cup {ApplyCreate(b[1], b[2], "Node", "C") : b \in ParentAddrs}

\* the scene of Init, with the ids of an earlier snapshot or with none
InitResolve ==
  /\ live \in {InitScene, [n \in DOMAIN InitScene |-> [InitScene[n] EXCEPT !.mcp_id = n]]}
  /\ nextOid = 5
  /\ um = [pending |-> FALSE, level |-> 0]
  /\ undo_redo \in BOOLEAN
  /\ commandId = 0
  /\ msg = None
  /\ reply = None
  /\ conn = NoConnection

\* a client calls the apply_scene_patch tool
CallApplyScenePatch ==
  /\ msg = None /\ reply = None
  /\ commandId = 0
  /\ commandId' = 1
  /\ \E operations \in SeqsUpTo(ToolOps, MaxOps), strict \in BOOLEAN :
        msg' = [kind |-> "tool_apply_scene_patch", operations |-> operations,
                strict |-> strict]
  /\ UNCHANGED <<live, nextOid, um, undo_redo, reply, conn>>

\* the tool runs: resolution and, when it succeeds, the editor command
ExecuteApplyScenePatch ==
  /\ msg.kind = "tool_apply_scene_patch"
  /\ \E x \in {apply_scene_patch_execute([live |-> live, nextOid |-> nextOid, um |-> um,
                                           undo_redo |-> undo_redo],
                                          msg.operations, msg.strict)} :
        /\ live' = x.live
        /\ nextOid' = x.nextOid
        /\ um' = x.um
        /\ reply' = [kind |-> "tool_apply_scene_patch", operations |-> msg.operations,
                     strict |-> msg.strict, before |-> live, r |-> x.r, sent |-> x.sent,
                     response |-> x.response]
  /\ msg' = None
  /\ UNCHANGED <<undo_redo, commandId, conn>>

NextResolve == CallApplyScenePatch \/ ExecuteApplyScenePatch \/ ReceiveReply

SpecResolve == InitResolve /\ [][NextResolve]_vars

(***************************************************************************)
(* The generate_scene_patch tool on property values of every JSON shape    *)
(* (SpecFilter).                                                           *)
(***************************************************************************)

\* the values of the property p: numbers, arrays in two orders, objects with
\* their keys in two orders, nested one level
JValues ==
  {JNum(0), JNum(1),
   JArr(<<JNum(0), JNum(1)>>), JArr(<<JNum(1), JNum(0)>>),
   JObj(<<<<"a", JNum(0)>>, <<"b", JArr(<<JNum(1)>>)>>>>),
   JObj(<<<<"b", JArr(<<JNum(1)>>)>>, <<"a", JNum(0)>>>>),
   JObj(<<<<"a", JNum(0)>>, <<"b", JArr(<<JNum(0)>>)>>>>),
   JObj(<<<<"a", JObj(<<<<"a", JNum(0)>>, <<"b", JNum(1)>>>>)>>>>),
   JObj(<<<<"a", JObj(<<<<"b", JNum(1)>>, <<"a", JNum(0)>>>>)>>>>)}

\* /root/A/B, where p of A is v and p of B is u
valueScene(v, u) ==
  (1 :> Node("Root", "Node", NoParent, <<2>>, 1))
  @@ (2 :> [Node("A", "Node2D", 1, <<3>>, 2) EXCEPT !.p = v])
  @@ (3 :> [Node("B", "Node", 2, <<>>, 3) EXCEPT !.p = u])

\* the desired child of the root: A or a new name, p given, with or without
\* the child B and its p, or with q, which no node declares, before p
valueForms ==
  {<<DNode(n, "Node2D", 0, <<<<"p", v>>>>, FALSE, <<>>)>> : n \in {"A", "C"}, v \in JValues}
  \cup {<<DNode(n, "Node2D", 0, <<<<"p", v>>>>, TRUE,
                <<DNode("B", "", 0, <<<<"p", u>>>>, FALSE, <<>>)>>)>> :
          n \in {"A", "C"}, v \in JValues, u \in {JNum(0), JNum(1)}}
  \cup {<<DNode(n, "Node2D", 0, <<<<"q", JNum(0)>>, <<"p", v>>>>, FALSE, <<>>)>> :
          n \in {"A", "C"}, v \in {JNum(0), JNum(1)}}
  \cup {<<DNode(n, "Node2D", 0, <<>>, TRUE,
                <<DNode("B", "", 0, <<<<"q", JNum(0)>>, <<"p", u>>>>, FALSE, <<>>)>>)>> :
          n \in {"A", "C"}, u \in {JNum(0), JNum(1)}}

InitFilter ==
  /\ live \in {valueScene(v, u) : v \in JValues, u \in {JNum(0), JNum(1)}}
  /\ nextOid = 4
  /\ um = [pending |-> FALSE, level |-> 0]
  /\ undo_redo = TRUE
  /\ commandId = 0
  /\ msg = None
  /\ reply = None
  /\ conn = NoConnection

\* a client calls the generate_scene_patch tool with property values
CallGenerateWithValues ==
  /\ msg = None /\ reply = None
  /\ commandId = 0
  /\ commandId' = 1
  /\ \E desired \in valueForms, dr, dp \in BOOLEAN :
        msg' = [kind |-> "generate_scene_patch",
                args |-> GenerateArgs(desired, FALSE, TRUE, dr, FALSE, dp, FALSE)]
  /\ UNCHANGED <<live, nextOid, um, undo_redo, reply, conn>>

NextFilter == CallGenerateWithValues \/ HandleGenerateScenePatch \/ ReceiveReply

SpecFilter == InitFilter /\ [][NextFilter]_vars

(***************************************************************************)
(* The generate_scene_patch tool asked to reorder the children of the root *)
(* (SpecReorder): the scene has MaxSiblings children of the root, in any   *)
(* order, and the desired tree names the same children in any order.       *)
(***************************************************************************)

\* children of the root of a scene that is reordered
MaxSiblings == 4

SiblingNames == SubSeq(<<"A", "B", "C", "D", "E", "F">>, 1, MaxSiblings)

\* the orders of the sibling names
Orders ==
  {f \in [1..MaxSiblings -> Range(SiblingNames)] :
     \A i, j \in 1..MaxSiblings : f[i] = f[j] => i = j}

\* /root with the children named by order; child i is instance i + 1 and
\* carries the id that an earlier snapshot gave it
orderScene(order) ==
  [n \in 1..(MaxSiblings + 1) |->
     IF n = RootOid
     THEN Node("Root", "Node", NoParent, [i \in 1..MaxSiblings |-> i + 1], RootOid)
     ELSE Node(order[n - 1], "Node", RootOid, <<>>, n)]

\* the desired children of the root: the names of order, nothing else given
orderForm(order) == [i \in 1..MaxSiblings |-> DNode(order[i], "", 0, <<>>, FALSE, <<>>)]

InitReorder ==
  /\ live \in {orderScene(order) : order \in Orders}
  /\ nextOid = MaxSiblings + 2
  /\ um = [pending |-> FALSE, level |-> 0]
  /\ undo_redo \in BOOLEAN
  /\ commandId = 0
  /\ msg = None
  /\ reply = None
  /\ conn = NoConnection

\* a client calls the generate_scene_patch tool with reorder_children and apply
CallGenerateReorder ==
  /\ msg = None /\ reply = None
  /\ commandId = 0
  /\ commandId' = 1
  /\ \E order \in Orders :
        msg' = [kind |-> "generate_scene_patch",
                args |-> GenerateArgs(orderForm(order), FALSE, TRUE, FALSE, TRUE, FALSE, TRUE)]
  /\ UNCHANGED <<live, nextOid, um, undo_redo, reply, conn>>

NextReorder == CallGenerateReorder \/ HandleGenerateScenePatch \/ ReceiveReply

SpecReorder == InitReorder /\ [][NextReorder]_vars

(***************************************************************************)
(* The id groups of a node in detail (SpecIds).  Elsewhere the field       *)
(* mcp_id of a node stands for the id that _get_mcp_id reads; here a node  *)
(* carries its groups, in the order they were added, and an id is the text *)
(* that _get_or_create_mcp_id builds.  A group is [prefix, rest]: the id   *)
(* groups have the prefix MCP_ID_GROUP_PREFIX, any other group has "".     *)
(***************************************************************************)

MCP_ID_GROUP_PREFIX == "godot_mcp_id:"

Group(prefix, rest) == [prefix |-> prefix, rest |-> rest]

\* scene_commands.gd lines 127-132: the id of the first id group, or ""
_get_mcp_id(groups) ==
  LET hit == {i \in DOMAIN groups : groups[i].prefix = MCP_ID_GROUP_PREFIX}
  IN IF hit = {} THEN "" ELSE groups[MinOf(hit)].rest

\* lines 134-141: the groups after the id groups are replaced by the one of id
_set_mcp_id(groups, id) ==
  Append(SelectSeq(groups, LAMBDA g : g.prefix # MCP_ID_GROUP_PREFIX),
         Group(MCP_ID_GROUP_PREFIX, id))

\* a variant of _get_or_create_mcp_id that builds an id whether or not the
\* node has one
_get_or_create_mcp_idAlways(groups, node, ticks) ==
  [groups |-> _set_mcp_id(groups, ToString(ticks) \o "-" \o ToString(node)),
   id |-> ToString(ticks) \o "-" \o ToString(node)]

\* lines 116-125: [groups, id]; the id joins the clock and the instance id
\* (the random number between them is left out)
_get_or_create_mcp_id(groups, node, ticks) ==
  IF _get_mcp_id(groups) # "" THEN [groups |-> groups, id |-> _get_mcp_id(groups)]
  ELSE [groups |-> _set_mcp_id(groups, ToString(ticks) \o "-" \o ToString(node)),
        id |-> ToString(ticks) \o "-" \o ToString(node)]

\* a variant of structureId that assigns an id whatever ensure_ids is
structureIdEnsured(groups, node, ensure_ids, ticks) ==
  _get_or_create_mcp_id(groups, node, ticks)

\* lines 93-98 for one node: [groups, id], id "" when there is none to report
structureId(groups, node, ensure_ids, ticks) ==
  IF ensure_ids THEN _get_or_create_mcp_id(groups, node, ticks)
  ELSE [groups |-> groups, id |-> _get_mcp_id(groups)]

RECURSIVE _get_node_structure_for_patch(_, _, _, _, _)
RECURSIVE structureChildren(_, _, _, _, _, _)

\* lines 108-111: the children in order; returns [w, children]
structureChildren(w, kids, rel_path, i, ensure_ids, ticks) ==
  IF i > Len(kids) THEN [w |-> w, children |-> <<>>]
  ELSE LET c == _get_node_structure_for_patch(w, kids[i],
                   Append(rel_path, w[kids[i]].name), ensure_ids, ticks)
           rest == structureChildren(c.w, kids, rel_path, i + 1, ensure_ids, ticks)
       IN [w |-> rest.w, children |-> <<c.structure>> \o rest.children]

\* lines 86-114 without the properties: [w, structure], where w is the scene
\* with the ids that the call assigned
_get_node_structure_for_patch(w, node, rel_path, ensure_ids, ticks) ==
  LET r == structureId(w[node].groups, node, ensure_ids, ticks)
      c == structureChildren([w EXCEPT ![node].groups = r.groups], w[node].kids,
                             rel_path, 1, ensure_ids, ticks)
  IN [w |-> c.w,
      structure |-> [name |-> w[node].name, type |-> w[node].type, path |-> rel_path,
                     id |-> r.id, children |-> c.children]]

\* what a node may carry before the first command: no group, a group of the
\* user, an id group of an earlier session, or both
GroupLists ==
  {<<>>, <<Group("", "enemies")>>, <<Group(MCP_ID_GROUP_PREFIX, "0-7")>>,
   <<Group("", "enemies"), Group(MCP_ID_GROUP_PREFIX, "0-7")>>}

\* /root/A/B with the given groups
groupScene(g1, g2, g3) ==
  (1 :> [name |-> "Root", type |-> "Node", parent |-> NoParent, kids |-> <<2>>, groups |-> g1])
  @@ (2 :> [name |-> "A", type |-> "Node2D", parent |-> 1, kids |-> <<3>>, groups |-> g2])
  @@ (3 :> [name |-> "B", type |-> "Node", parent |-> 2, kids |-> <<>>, groups |-> g3])

InitIds ==
  /\ live \in {groupScene(g1, g2, g3) : g1, g2, g3 \in GroupLists}
  /\ nextOid = 4
  /\ um = [pending |-> FALSE, level |-> 0]
  /\ undo_redo = TRUE
  /\ commandId = 0
  /\ msg = None
  /\ reply = None
  /\ conn = NoConnection

\* a client sends get_edited_scene_structure
SendGetEditedSceneStructure ==
  /\ msg = None /\ reply = None
  /\ commandId < MaxCommands
  /\ commandId' = commandId + 1
  /\ \E ensure_ids \in BOOLEAN :
        msg' = [kind |-> "get_edited_scene_structure", ensure_ids |-> ensure_ids]
  /\ UNCHANGED <<live, nextOid, um, undo_redo, reply, conn>>

\* the editor runs _get_edited_scene_structure (lines 62-84); the number of
\* the command stands for the clock
HandleGetEditedSceneStructure ==
  /\ msg.kind = "get_edited_scene_structure"
  /\ \E r \in {_get_node_structure_for_patch(live, RootOid, RootPath, msg.ensure_ids,
                                               commandId)} :
        /\ live' = r.w
        /\ reply' = [kind |-> "get_edited_scene_structure", ensure_ids |-> msg.ensure_ids,
                     before |-> live, structure |-> r.structure]
  /\ msg' = None
  /\ UNCHANGED <<nextOid, um, undo_redo, commandId, conn>>

NextIds == SendGetEditedSceneStructure \/ HandleGetEditedSceneStructure \/ ReceiveReply

SpecIds == InitIds /\ [][NextIds]_vars

(***************************************************************************)
(* The connection of the server to the editor (SpecConn).  conn holds the  *)
(* fields of the GodotConnection object and what the outside sees of it:   *)
(* connected, the readyState of ws ("NONE" when ws is null), the frames    *)
(* sent on ws, the ids in commandQueue, one promise for every call of      *)
(* sendCommand, the frames that the message handler has received, and the  *)
(* method or handler that ran last (event).                                *)
(* commandId is the counter of the object.  Mock mode is left out.         *)
(***************************************************************************)

\* the most frames the editor sends in one run
MaxFrames == 2

\* line 512: `cmd_${this.commandId++}`
CmdId(n) == "cmd_" \o ToString(n)

Promise(id, state, value) == [commandId |-> id, state |-> state, value |-> value]

\* the promises after the pending one of the command id is settled
settle(promises, id, state, value) ==
  [i \in DOMAIN promises |->
     IF promises[i].commandId = id /\ promises[i].state = "pending"
     THEN Promise(id, state, value)
     ELSE promises[i]]

\* a variant of pendingCommand that takes some pending command whatever the
\* frame's commandId is
pendingCommandAny(c, response) ==
  IF response.commandId = "" \/ c.commandQueue = {} THEN ""
  ELSE CHOOSE id \in c.commandQueue : TRUE

\* lines 412-415: the id of the pending command that a frame answers, or ""
\* (commandId "" stands for a frame without the key)
pendingCommand(c, response) ==
  IF response.commandId = "" \/ response.commandId \notin c.commandQueue THEN ""
  ELSE response.commandId

\* lines 417-424: the pending command id is taken from the queue and settled
settleCommand(c, response, id) ==
  IF id = "" THEN c
  ELSE [c EXCEPT !.commandQueue = @ \ {id},
                 !.promises =
                    IF response.status = "success"
                    THEN settle(@, id, "resolved", response.result)
                    ELSE settle(@, id, "rejected",
                                IF response.message # "" THEN response.message
                                ELSE "Unknown error")]

\* lines 405-429: the message handler of ws
onMessage(c, response) ==
  settleCommand([c EXCEPT !.received = Append(@, response)], response,
                pendingCommand(c, response))

\* lines 511-539: the executor of the promise of sendCommand, for the id that
\* the counter gives
sendCommandPromise(c, type, id) ==
  IF c.readyState = "OPEN"
  THEN [c EXCEPT !.sent = Append(@, [type |-> type, commandId |-> id]),
                 !.commandQueue = @ \cup {id},
                 !.promises = Append(@, Promise(id, "pending", ""))]
  ELSE [c EXCEPT !.promises = Append(@, Promise(id, "rejected", "WebSocket not connected"))]

\* lines 502-508: connect() threw, and so does sendCommand
sendCommandThrow(c) ==
  [c EXCEPT !.readyState = "NONE",
            !.promises = Append(@, Promise("", "rejected", "Failed to connect"))]

\* lines 517-522: the timer of a command fires
onTimeout(c, id) ==
  IF id \notin c.commandQueue THEN c
  ELSE [c EXCEPT !.commandQueue = @ \ {id},
                 !.promises = settle(@, id, "rejected", "Command timed out")]

\* lines 546-562: disconnect() rejects every pending command and drops ws
disconnect(c) ==
  IF c.readyState = "NONE" THEN c
  ELSE [c EXCEPT !.commandQueue = {},
                 !.promises = [i \in DOMAIN @ |->
                                 IF @[i].state = "pending"
                                 THEN Promise(@[i].commandId, "rejected", "Connection closed")
                                 ELSE @[i]],
                 !.readyState = "NONE",
                 !.connected = FALSE]

\* the frames the editor, or anything else at the far end, may send
Responses ==
  {[status |-> "success", commandId |-> id, result |-> v, message |-> ""] :
     id \in {"", CmdId(0), CmdId(1), CmdId(7)}, v \in {"r1", "r2"}}
  \cup {[status |-> "error", commandId |-> id, result |-> "", message |-> m] :
          id \in {"", CmdId(0), CmdId(1), CmdId(7)}, m \in {"", "boom"}}

InitConn ==
  /\ live = InitScene
  /\ nextOid = 5
  /\ um = [pending |-> FALSE, level |-> 0]
  /\ undo_redo = TRUE
  /\ commandId = 0
  /\ msg = None
  /\ reply = None
  /\ conn = [connected |-> FALSE, readyState |-> "NONE", sent |-> <<>>,
             commandQueue |-> {}, promises |-> <<>>, received |-> <<>>,
             event |-> "none"]

\* sendCommand on a connected object
SendCommand ==
  /\ conn.connected /\ conn.readyState # "NONE"
  /\ Len(conn.promises) < MaxCommands
  /\ conn' = [sendCommandPromise(conn, "apply_scene_patch", CmdId(commandId))
                EXCEPT !.event = "sendCommand"]
  /\ commandId' = commandId + 1
  /\ UNCHANGED <<live, nextOid, um, undo_redo, msg, reply>>

\* sendCommand on an object that is not connected: connect() opens a new ws
SendCommandConnecting ==
  /\ ~(conn.connected /\ conn.readyState # "NONE")
  /\ Len(conn.promises) < MaxCommands
  /\ conn' = [sendCommandPromise([conn EXCEPT !.connected = TRUE, !.readyState = "OPEN"],
                                 "apply_scene_patch", CmdId(commandId))
                EXCEPT !.event = "sendCommand"]
  /\ commandId' = commandId + 1
  /\ UNCHANGED <<live, nextOid, um, undo_redo, msg, reply>>

\* sendCommand on an object that is not connected: connect() fails
SendCommandFailing ==
  /\ ~(conn.connected /\ conn.readyState # "NONE")
  /\ Len(conn.promises) < MaxCommands
  /\ conn' = [sendCommandThrow(conn) EXCEPT !.event = "sendCommand"]
  /\ UNCHANGED <<live, nextOid, um, undo_redo, commandId, msg, reply>>

\* a frame arrives on ws
OnMessage ==
  /\ conn.readyState \in {"OPEN", "CLOSING"}
  /\ Len(conn.received) < MaxFrames
  /\ \E response \in Responses :
        conn' = [onMessage(conn, response) EXCEPT !.event = "message"]
  /\ UNCHANGED <<live, nextOid, um, undo_redo, commandId, msg, reply>>

\* the timer of a pending command fires
OnTimeout ==
  /\ \E id \in conn.commandQueue :
        conn' = [onTimeout(conn, id) EXCEPT !.event = "timeout"]
  /\ UNCHANGED <<live, nextOid, um, undo_redo, commandId, msg, reply>>

\* the far end starts to close ws
SocketClosing ==
  /\ conn.readyState = "OPEN"
  /\ conn' = [conn EXCEPT !.readyState = "CLOSING", !.event = "closing"]
  /\ UNCHANGED <<live, nextOid, um, undo_redo, commandId, msg, reply>>

\* lines 446-451: the close event of ws
OnClose ==
  /\ conn.readyState \in {"OPEN", "CLOSING"}
  /\ conn' = [conn EXCEPT !.readyState = "CLOSED", !.connected = FALSE, !.event = "close"]
  /\ UNCHANGED <<live, nextOid, um, undo_redo, commandId, msg, reply>>

\* disconnect() is called, with a ws or without
Disconnect ==
  /\ conn' = [disconnect(conn) EXCEPT !.event = "disconnect"]
  /\ UNCHANGED <<live, nextOid, um, undo_redo, commandId, msg, reply>>

NextConn ==
  \/ SendCommand \/ SendCommandConnecting \/ SendCommandFailing
  \/ OnMessage \/ OnTimeout \/ SocketClosing \/ OnClose \/ Disconnect

SpecConn == InitConn /\ [][NextConn]_vars

(***************************************************************************)
(* Concurrent calls of sendCommand on a connection that is down            *)
(* (SpecConnect).  conn holds ws (the number of the socket, 0 for null),   *)
(* connected, every WebSocket that tryConnect created with its readyState  *)
(* ("TERMINATED": destroyed, its close event still to come), the state of  *)
(* the promise of its tryConnect and whether its connection timer is       *)
(* armed, and every call of sendCommand with the socket it awaits and the  *)
(* socket its command went to.                                             *)
(***************************************************************************)

\* WebSockets created in one run
MaxSockets == 3

\* calls of sendCommand in one run
MaxCalls == 2

\* maxRetries of the connection
MaxRetries == 1

\* ws.terminate() on socket k (0: no socket)
terminate(sockets, k) ==
  IF k = 0 \/ sockets[k].state = "CLOSED" THEN sockets
  ELSE [sockets EXCEPT ![k].state = "TERMINATED"]

\* lines 382-395: tryConnect creates a WebSocket and stores it in this.ws
tryConnect(c) ==
  [c EXCEPT !.sockets = Append(@, [state |-> "CONNECTING", result |-> "pending",
                                    timer |-> TRUE]),
            !.ws = Len(c.sockets) + 1]

\* lines 510-540: the command is sent on this.ws when it is open
sendOnWs(c, call) ==
  IF c.ws # 0 /\ c.sockets[c.ws].state = "OPEN"
  THEN [c EXCEPT !.calls[call].pc = "sent", !.calls[call].sentOn = c.ws]
  ELSE [c EXCEPT !.calls[call].pc = "rejected"]

InitConnect ==
  /\ live = InitScene
  /\ nextOid = 5
  /\ um = [pending |-> FALSE, level |-> 0]
  /\ undo_redo = TRUE
  /\ commandId = 0
  /\ msg = None
  /\ reply = None
  /\ conn = [ws |-> 0, connected |-> FALSE, sockets |-> <<>>, calls |-> <<>>]

\* lines 496-509 and 373-380: a call of sendCommand up to its first await
CallSendCommand ==
  /\ Len(conn.calls) < MaxCalls
  /\ LET call == Len(conn.calls) + 1
         c == [conn EXCEPT !.calls = Append(@, [pc |-> "connecting", sock |-> 0,
                                                 retries |-> 0, sentOn |-> 0])]
     IN IF conn.connected
        THEN conn' = sendOnWs(c, call)
        ELSE /\ Len(conn.sockets) < MaxSockets
             /\ conn' = [tryConnect(c) EXCEPT !.calls[call].sock = Len(conn.sockets) + 1]
  /\ UNCHANGED <<live, nextOid, um, undo_redo, commandId, msg, reply>>

\* lines 397-403 and 465-467: the open event of socket k
SocketOpens ==
  /\ \E k \in DOMAIN conn.sockets :
        /\ conn.sockets[k].state = "CONNECTING"
        /\ conn' = [conn EXCEPT
              !.sockets[k] = [state |-> "OPEN",
                              result |-> IF @.result = "pending" THEN "resolved" ELSE @.result,
                              timer |-> FALSE],
              !.connected = IF conn.sockets[k].result = "pending" THEN TRUE ELSE @]
  /\ UNCHANGED <<live, nextOid, um, undo_redo, commandId, msg, reply>>

\* lines 431-444: the handshake of socket k fails; the handler terminates
\* this.ws, whichever socket that is, and sets it to null
SocketErrors ==
  /\ \E k \in DOMAIN conn.sockets :
        /\ conn.sockets[k].state = "CONNECTING"
        /\ conn' =
             IF conn.sockets[k].result # "pending"
             THEN [conn EXCEPT !.sockets[k].state = "TERMINATED"]
             ELSE [conn EXCEPT
                     !.sockets = [terminate(@, conn.ws) EXCEPT
                                    ![k] = [state |-> "TERMINATED", result |-> "rejected",
                                            timer |-> FALSE]],
                     !.ws = 0]
  /\ UNCHANGED <<live, nextOid, um, undo_redo, commandId, msg, reply>>

\* lines 446-451: the close event of socket k, open or destroyed
SocketCloses ==
  /\ \E k \in DOMAIN conn.sockets :
        /\ conn.sockets[k].state \in {"OPEN", "TERMINATED"}
        /\ conn' = [conn EXCEPT !.sockets[k].state = "CLOSED", !.connected = FALSE]
  /\ UNCHANGED <<live, nextOid, um, undo_redo, commandId, msg, reply>>

\* lines 454-463: the connection timer of socket k fires; it looks at this.ws
ConnectionTimeout ==
  /\ \E k \in DOMAIN conn.sockets :
        /\ conn.sockets[k].timer
        /\ conn' =
             IF conn.ws # 0 /\ conn.sockets[conn.ws].state = "OPEN"
             THEN [conn EXCEPT !.sockets[k].timer = FALSE]
             ELSE [conn EXCEPT
                     !.sockets = [terminate(@, conn.ws) EXCEPT
                                    ![k].timer = FALSE,
                                    ![k].result = IF @ = "pending" THEN "rejected" ELSE @],
                     !.ws = 0]
  /\ UNCHANGED <<live, nextOid, um, undo_redo, commandId, msg, reply>>

\* lines 470-473 and 510-540: tryConnect resolved, connect() returns and the
\* command is sent
SendAfterConnect ==
  /\ \E call \in DOMAIN conn.calls :
        /\ conn.calls[call].pc = "connecting"
        /\ conn.sockets[conn.calls[call].sock].result = "resolved"
        /\ conn' = sendOnWs(conn, call)
  /\ UNCHANGED <<live, nextOid, um, undo_redo, commandId, msg, reply>>

\* lines 474-485 and 502-506: tryConnect rejected; connect() tries again or
\* throws, and then sendCommand throws
RetryAfterError ==
  /\ \E call \in DOMAIN conn.calls :
        /\ conn.calls[call].pc = "connecting"
        /\ conn.sockets[conn.calls[call].sock].result = "rejected"
        /\ IF conn.calls[call].retries + 1 <= MaxRetries
           THEN /\ Len(conn.sockets) < MaxSockets
                /\ conn' = [tryConnect(conn) EXCEPT
                              !.calls[call].sock = Len(conn.sockets) + 1,
                              !.calls[call].retries = @ + 1]
           ELSE conn' = [conn EXCEPT !.calls[call].pc = "thrown",
                                     !.calls[call].retries = @ + 1]
  /\ UNCHANGED <<live, nextOid, um, undo_redo, commandId, msg, reply>>

NextConnect ==
  \/ CallSendCommand \/ SocketOpens \/ SocketErrors \/ SocketCloses
  \/ ConnectionTimeout \/ SendAfterConnect \/ RetryAfterError

SpecConnect == InitConnect /\ [][NextConnect]_vars

(***************************************************************************)
(* Properties of the patch applicator (Spec)                               *)
(***************************************************************************)

Replied == reply.kind = "apply_scene_patch"

\* what one operation leaves in the tree when it took effect
takesEffect(w, op) ==
  CASE op.op = "create_node" ->
         get_editor_node(w, Append(op.parent_path, op.node_name)) # 0
    [] op.op = "delete_node" -> get_editor_node(w, op.node_path) = 0
    [] op.op = "set_property" ->
         /\ get_editor_node(w, op.node_path) # 0
         /\ w[get_editor_node(w, op.node_path)].p = op.value
    [] op.op = "rename_node" ->
         get_editor_node(w, Append(Front(op.node_path), op.new_name)) # 0
    [] op.op = "reparent_node" ->
         get_editor_node(w, Append(op.new_parent_path, Last(op.node_path))) # 0

C2_LenientIndependent ==
  (Replied /\ ~reply.strict) =>
     /\ reply.response.attempted = reply.response.total
     /\ reply.response.applied + Len(reply.response.errors) = reply.response.total
     /\ (reply.response.total = 1 /\ reply.response.applied = 1)
           => takesEffect(live, reply.operations[1])

(***************************************************************************)
(* Properties of the differ (SpecDiff)                                     *)
(***************************************************************************)

Generated == reply.kind = "generate_scene_patch"

NamesOf(nodes) == {nodes[i].name : i \in DOMAIN nodes}

HasRename(operations, nodePath) ==
  \E i \in DOMAIN operations :
     operations[i].op = "rename_node" /\ operations[i].node_path = nodePath

\* two live siblings of the same type and the same child count
Twins(children, i, j) ==
  /\ i # j
  /\ children[i].type = children[j].type
  /\ Len(children[i].children) = Len(children[j].children)

\* the live child that the diff matched to a desired child: by name, else by
\* the rename it emitted
MatchedTo(existing, path, d, operations) ==
  {i \in DOMAIN existing.children :
     \/ existing.children[i].name = d.name
     \/ /\ d.name \notin NamesOf(existing.children)
        /\ \E k \in DOMAIN operations :
              operations[k] = OpRename(Append(path, existing.children[i].name), d.name)}

\* no rename_node targets a twin below the node existing, which the diff
\* reaches at path; spared says which twins the statement is about
RECURSIVE TwinsUntouched(_, _, _, _, _)
TwinsUntouched(existing, path, desiredChildren, operations, onlyUnnamed) ==
  /\ \A i, j \in DOMAIN existing.children :
        (/\ Twins(existing.children, i, j)
         /\ onlyUnnamed => {existing.children[i].name, existing.children[j].name}
                              \cap NamesOf(desiredChildren) = {})
          => ~HasRename(operations, Append(path, existing.children[i].name))
  /\ \A k \in DOMAIN desiredChildren :
        \A i \in MatchedTo(existing, path, desiredChildren[k], operations) :
           TwinsUntouched(existing.children[i], Append(path, desiredChildren[k].name),
                          desiredChildren[k].children, operations, onlyUnnamed)

\* C9 as stated: with detect_renames, no rename_node targets either of two live
\* siblings of the same type and child count, whatever the desired children are.
C9_NoRenameOfTwins ==
  (Generated /\ reply.args.detect_renames)
    => TwinsUntouched(reply.out.structure, RootPath, reply.args.desired,
                      reply.out.generated, FALSE)

\* C9 amended: with detect_renames, no rename_node targets either of two live
\* siblings of the same type and child count when no desired sibling carries the
\* name of either.
C9_NoRenameOfUnnamedTwins ==
  (Generated /\ reply.args.detect_renames)
    => TwinsUntouched(reply.out.structure, RootPath, reply.args.desired,
                      reply.out.generated, TRUE)

\* twins A and B of type Node2D, a desired child C of that type alone: the
\* candidates are ambiguous and C is created
C9_Witness ==
  /\ Generated /\ reply.args.detect_renames
  /\ Len(reply.out.structure.children) = 2
  /\ Twins(reply.out.structure.children, 1, 2)
  /\ Len(reply.args.desired) = 1
  /\ reply.args.desired[1].name = "C"
  /\ reply.args.desired[1].type = reply.out.structure.children[1].type
  /\ \E i \in DOMAIN reply.out.generated :
        reply.out.generated[i].op = "create_node"
        /\ reply.out.generated[i].node_name = "C"

\* C10: a desired child of the root that carries the id of a live node under
\* another name is matched to that node: the diff renames the node and creates
\* no node of the desired name.
C10_IdPinsNode ==
  (Generated /\ reply.out.status = "success")
    => \A i \in DOMAIN reply.args.desired :
          \A n \in DOMAIN reply.before :
             (/\ reply.args.desired[i].id # 0
              /\ reply.before[n].mcp_id = reply.args.desired[i].id
              /\ reply.before[n].name # reply.args.desired[i].name)
               => /\ HasRename(reply.out.generated, <<"root", reply.before[n].name>>)
                  /\ ~\E k \in DOMAIN reply.out.generated :
                        /\ reply.out.generated[k].op = "create_node"
                        /\ reply.out.generated[k].node_name = reply.args.desired[i].name

(***************************************************************************)
(* Properties of the diff applied (SpecRoundTrip)                          *)
(***************************************************************************)

IsSubsequence(s, t) ==
  \E f \in [DOMAIN s -> DOMAIN t] :
     /\ \A i \in DOMAIN s : t[f[i]] = s[i]
     /\ \A i, j \in DOMAIN s : i < j => f[i] < f[j]

\* the scene below node has what the desired children ask for
RECURSIVE Conforms(_, _, _, _)
Conforms(w, node, desiredChildren, args) ==
  LET liveNames == [i \in DOMAIN w[node].kids |-> w[w[node].kids[i]].name]
      desiredNames == [i \in DOMAIN desiredChildren |-> desiredChildren[i].name]
  IN /\ \A i \in DOMAIN desiredChildren :
           LET d == desiredChildren[i]
               k == get_node_or_null(w, node, d.name)
           IN /\ k # 0
              /\ d.type # "" => w[k].type = d.type
              /\ \A j \in DOMAIN d.properties :
                    d.properties[j][1] \in DeclaredProps => w[k].p = d.properties[j][2]
              /\ d.hasChildren => Conforms(w, k, d.children, args)
     /\ args.allow_delete => Range(liveNames) \subseteq Range(desiredNames)
     /\ args.reorder_children => IsSubsequence(desiredNames, liveNames)

\* C3: the operations of diff(A, B), applied in order with strict, leave a scene
\* that has the names, types, requested properties and (with reorder_children)
\* the child order of B, and with allow_delete nothing else.
C3_RoundTrip ==
  (Generated /\ reply.args.apply /\ reply.out.errors = <<>>)
    => Conforms(live, RootOid, reply.args.desired, reply.args)

(***************************************************************************)
(* Properties of the id resolver (SpecResolve)                             *)
(***************************************************************************)

Executed == reply.kind = "tool_apply_scene_patch"

\* id -> path as a snapshot of the scene w gives it
SnapshotMap(w) == indexIds(get_edited_scene_structure(w, FALSE, <<>>, TRUE).structure, <<>>)

\* the scene without the ids
Structure(w) == [n \in DOMAIN w |-> [w[n] EXCEPT !.mcp_id = 0]]

\* the id/path field pairs of an operation, in the order the resolver reads them
FieldPairs(op) ==
  CASE op.op = "create_node" -> <<<<op.parent_id, op.parent_path>>>>
    [] op.op = "reparent_node" ->
         <<<<op.node_id, op.node_path>>, <<op.new_parent_id, op.new_parent_path>>>>
    [] OTHER -> <<<<op.node_id, op.node_path>>>>

\* the paths of a resolved operation, in the same order
ResolvedPaths(op) ==
  CASE op.op = "create_node" -> <<op.parent_path>>
    [] op.op = "reparent_node" -> <<op.node_path, op.new_parent_path>>
    [] OTHER -> <<op.node_path>>

NoMissingField == \A i \in DOMAIN reply.operations : ~missingField(reply.operations[i])

AllApplied ==
  /\ reply.r.ok /\ reply.sent
  /\ reply.response.status = "success"
  /\ reply.response.applied = reply.response.total

\* C5: after a rename_node or reparent_node addressed by id the resolver maps
\* the id to the path the node has after the operation (stated for the last
\* operation of a batch that was applied in full: the map the resolver ends with
\* against a snapshot of the scene the batch leaves).
C5_IdFollowsNode ==
  (Executed /\ AllApplied) =>
     LET last == reply.operations[Len(reply.operations)]
     IN (last.op \in {"rename_node", "reparent_node"} /\ last.node_id # 0)
          => /\ last.node_id \in DOMAIN reply.r.map
             /\ last.node_id \in DOMAIN SnapshotMap(live)
             /\ reply.r.map[last.node_id] = SnapshotMap(live)[last.node_id]

UnknownIds(op) ==
  {FieldPairs(op)[i][1] : i \in DOMAIN FieldPairs(op)}
    \ ({0} \cup DOMAIN SnapshotMap(reply.before))

NotResolved ==
  /\ ~reply.r.ok /\ ~reply.sent
  /\ Structure(live) = Structure(reply.before)

KeepsPaths(op) == op.op \in {"create_node", "set_property"}

\* the pairs of op up to the i-th give both fields and agree with the snapshot
PairsAgree(op, i, snapshot) ==
  \A j \in 1..i :
     LET pair == FieldPairs(op)[j]
     IN pair[1] \in DOMAIN snapshot /\ pair[2] = snapshot[pair[1]]

TargetOf(w, op) ==
  IF op.node_id # 0
  THEN IF op.node_id \in DOMAIN SnapshotMap(w)
       THEN get_editor_node(w, SnapshotMap(w)[op.node_id]) ELSE 0
  ELSE get_editor_node(w, op.node_path)

\* C8: after a delete_node of N, a later operation of the batch on a descendant
\* of N is reported as an error, by the resolver or by the editor.
C8_DescendantDetected ==
  Executed =>
    \A i, j \in DOMAIN reply.operations :
       (/\ i < j
        /\ \A h \in 1..(i - 1) : KeepsPaths(reply.operations[h])
        /\ reply.operations[i].op = "delete_node"
        /\ reply.operations[j].op # "create_node"
        /\ TargetOf(reply.before, reply.operations[i]) \notin {0, RootOid}
        /\ TargetOf(reply.before, reply.operations[j]) # 0
        /\ TargetOf(reply.before, reply.operations[i])
             # TargetOf(reply.before, reply.operations[j])
        /\ is_ancestor_of(reply.before, TargetOf(reply.before, reply.operations[i]),
                          TargetOf(reply.before, reply.operations[j])))
         => (~reply.r.ok \/ Len(reply.response.errors) > 0)

(***************************************************************************)
(* Properties of the property filter (SpecFilter)                          *)
(***************************************************************************)

\* structural equality of two values: arrays in order, objects by key
RECURSIVE StructEq(_, _)
StructEq(a, b) ==
  /\ a.t = b.t
  /\ CASE a.t = "num" -> a.n = b.n
        [] a.t = "arr" ->
             /\ Len(a.items) = Len(b.items)
             /\ \A i \in DOMAIN a.items : StructEq(a.items[i], b.items[i])
        [] a.t = "obj" ->
             /\ {a.pairs[i][1] : i \in DOMAIN a.pairs} = {b.pairs[i][1] : i \in DOMAIN b.pairs}
             /\ \A i \in DOMAIN a.pairs : \A j \in DOMAIN b.pairs :
                   a.pairs[i][1] = b.pairs[j][1] => StructEq(a.pairs[i][2], b.pairs[j][2])

\* the node of the scene w that an operation on path will act on, once the
\* renames of the patch (aliases: old path, new path) are applied
PatchTarget(w, path, aliases) ==
  LET hit == {i \in DOMAIN aliases : IsPrefix(aliases[i][2], path)}
  IN IF hit = {} THEN get_editor_node(w, path)
     ELSE LET i == CHOOSE k \in hit : TRUE
          IN get_editor_node(w, aliases[i][1]
                                  \o SubSeq(path, Len(aliases[i][2]) + 1, Len(path)))

\* C11: with diff_properties, a generated set_property is left out of the
\* patch exactly when the value of the property on its target node equals the
\* desired value structurally (key order ignored, array order kept)
C11_SuppressedIffEqual ==
  (Generated /\ reply.args.diff_properties /\ reply.out.status = "success") =>
    \A i \in DOMAIN reply.out.generated :
       LET op == reply.out.generated[i]
           n == PatchTarget(reply.before, op.node_path, reply.out.aliases)
       IN (op.op = "set_property" /\ op.property \in DeclaredProps /\ n # 0) =>
            (StructEq(reply.before[n].p, op.value)
               <=> op \notin Range(reply.out.operations))

\* the same for the operations whose path no rename of the patch touches
C11_SuppressedOffRenames ==
  (Generated /\ reply.args.diff_properties /\ reply.out.status = "success") =>
    \A i \in DOMAIN reply.out.generated :
       LET op == reply.out.generated[i]
           n == get_editor_node(reply.before, op.node_path)
       IN (op.op = "set_property" /\ op.property \in DeclaredProps /\ n # 0) =>
            (StructEq(reply.before[n].p, op.value)
               <=> op \notin Range(reply.out.operations))

(***************************************************************************)
(* Properties of the reorder step of the differ (SpecDiff)                 *)
(***************************************************************************)

\* the position among the live children of the node that the diff matched to
\* the desired child d, or 0 when d is a new node
liveIndex(existing, path, d, operations) ==
  LET m == MatchedTo(existing, path, d, operations)
  IN IF m = {} THEN 0 ELSE CHOOSE i \in m : TRUE

\* the moves the desired order asks for: one for every desired child that is
\* a live node out of place, in desired order
ExpectedMoves(existing, path, desiredChildren, operations) ==
  LET out == SelectSeq([k \in DOMAIN desiredChildren |-> k], LAMBDA k :
                liveIndex(existing, path, desiredChildren[k], operations) \notin {0, k})
  IN [j \in DOMAIN out |->
        OpReparent(Append(path, desiredChildren[out[j]].name), path, out[j] - 1)]

\* the reparent_node operations of the patch that move a live child of the
\* parent at path, in the order of the patch
EmittedMoves(existing, path, desiredChildren, operations) ==
  SelectSeq(operations, LAMBDA op :
    /\ op.op = "reparent_node"
    /\ op.new_parent_path = path
    /\ \E k \in DOMAIN desiredChildren :
          /\ op.node_path = Append(path, desiredChildren[k].name)
          /\ liveIndex(existing, path, desiredChildren[k], operations) # 0)

\* every parent the diff reaches gets exactly the expected moves; with
\* onlySeveral, a parent with fewer than two desired children gets none
RECURSIVE ReorderExact(_, _, _, _, _)
ReorderExact(existing, path, desiredChildren, operations, onlySeveral) ==
  /\ EmittedMoves(existing, path, desiredChildren, operations)
       = IF onlySeveral /\ Len(desiredChildren) <= 1 THEN <<>>
         ELSE ExpectedMoves(existing, path, desiredChildren, operations)
  /\ \A k \in DOMAIN desiredChildren :
        \A i \in MatchedTo(existing, path, desiredChildren[k], operations) :
           ReorderExact(existing.children[i], Append(path, desiredChildren[k].name),
                        desiredChildren[k].children, operations, onlySeveral)

RootError(op) ==
  IF op.op = "delete_node" THEN "delete_node: cannot delete root node"
  ELSE "reparent_node: cannot reparent root node"

TargetsRoot(op) == op.op \in {"delete_node", "reparent_node"} /\ op.node_path = RootPath

\* C13: the root stays the root of the edited scene (in the scene, under no
\* parent, in no list of children) after every batch, and every delete_node or
\* reparent_node on the root that the editor attempted is answered with its
\* error: a strict batch ends with that error, a lenient one lists it and
\* applies fewer operations than it was given.
C13_RootStays ==
  /\ RootOid \in DOMAIN live
  /\ live[RootOid].parent = NoParent
  /\ \A n \in DOMAIN live : RootOid \notin Range(live[n].kids)
  /\ Replied =>
       \A i \in 1..reply.response.attempted :
          TargetsRoot(reply.operations[i]) =>
            IF reply.strict
            THEN /\ reply.response.status = "error"
                 /\ reply.response.message = RootError(reply.operations[i])
            ELSE /\ RootError(reply.operations[i]) \in Range(reply.response.errors)
                 /\ reply.response.applied < reply.response.total

\* a lenient batch on a host without undo/redo: reparent_node of the root
\* below /root/A is refused after the first operation was applied
C13_Witness ==
  /\ Replied /\ ~reply.strict /\ ~undo_redo
  /\ Len(reply.operations) = 2
  /\ reply.operations[2] = OpReparent(RootPath, <<"root", "A">>, -1)
  /\ reply.response.applied = 1
  /\ reply.response.errors = <<"reparent_node: cannot reparent root node">>

(***************************************************************************)
(* Properties of the response of the applicator (Spec)                     *)
(***************************************************************************)

\* C14: whatever the mode, the response to a batch that reached the loop of
\* the applicator carries the list of errors and the count of operations
\* applied.
C14_ErrorsAndCount ==
  (Replied /\ reply.operations # <<>>) =>
    /\ "result" \in DOMAIN reply.wire
    /\ reply.wire.result.errors = reply.response.errors
    /\ reply.wire.result.applied = reply.response.applied

\* C15: on a host without undo/redo a batch is lenient whatever its strict
\* flag: the loop reaches every operation, and every operation is either
\* applied or listed with its error.
C15_ImmediateIsLenient ==
  (Replied /\ ~undo_redo /\ reply.operations # <<>>) =>
    /\ reply.response.attempted = Len(reply.operations)
    /\ reply.response.applied + Len(reply.response.errors) = Len(reply.operations)

\* C16: on every host, with undo/redo or without, a strict batch that is
\* answered with an error leaves the edited scene as it was before the batch.
C16_StrictAllOrNothing ==
  (Replied /\ reply.strict /\ reply.wire.status = "error") => live = reply.before

(***************************************************************************)
(* Properties of the node ids (SpecIds)                                    *)
(***************************************************************************)

Snapshot == reply.kind = "get_edited_scene_structure"

\* the ids of the id groups that a node carries
IdTags(w, n) ==
  {w[n].groups[i].rest : i \in {j \in DOMAIN w[n].groups :
                                   w[n].groups[j].prefix = MCP_ID_GROUP_PREFIX}}

\* the ids that a structure reports, by path
RECURSIVE ReportedIds(_)
ReportedIds(structure) ==
  {<<structure.path, structure.id>>}
  \cup UNION {ReportedIds(structure.children[i]) : i \in DOMAIN structure.children}

\* the node of the scene w at a path of names below the root
NodeAt(w, path) == walkPath(w, RootOid, path, 2)

\* C17: a node carries at most one id tag; once it carries one, no snapshot
\* changes it, whether it ensures ids or not; and a snapshot that ensures ids
\* returns for every node the id the node carries, which is the id it carried
\* before the call if it had one.
C17_IdIsStable ==
  /\ [](\A n \in DOMAIN live : Cardinality(IdTags(live, n)) <= 1)
  /\ [][\A n \in DOMAIN live : IdTags(live, n) # {} => IdTags(live', n) = IdTags(live, n)]_vars
  /\ []((Snapshot /\ reply.ensure_ids) =>
          \A pr \in ReportedIds(reply.structure) :
             /\ IdTags(live, NodeAt(live, pr[1])) = {pr[2]}
             /\ IdTags(reply.before, NodeAt(live, pr[1])) \in {{}, {pr[2]}})

\* the second of two snapshots that ensure ids returns for /root/A the id
\* that the first one built
C17_Witness ==
  /\ Snapshot /\ reply.ensure_ids /\ commandId = 2
  /\ reply.structure.children[1].id = "1-2"
  /\ IdTags(reply.before, 2) = {"1-2"}

\* the paths of a structure whose id is not empty
ReportedWithId(structure) == {pr[1] : pr \in {q \in ReportedIds(structure) : q[2] # ""}}

\* the paths of the nodes of w that carry an id group
RECURSIVE CarriedBelow(_, _, _)
CarriedBelow(w, n, path) ==
  (IF IdTags(w, n) # {} THEN {path} ELSE {})
  \cup UNION {CarriedBelow(w, w[n].kids[i], Append(path, w[w[n].kids[i]].name)) :
                i \in DOMAIN w[n].kids}

\* C18: a snapshot with ensure_ids reports a non-empty id for every node of
\* the scene; a snapshot without it leaves every node's groups as they were
\* and reports an id exactly for the nodes that carried one, namely that id.
C18_SnapshotIds ==
  Snapshot =>
    IF reply.ensure_ids
    THEN /\ \A pr \in ReportedIds(reply.structure) : pr[2] # ""
         /\ Cardinality(ReportedIds(reply.structure)) = Cardinality(DOMAIN live)
    ELSE /\ live = reply.before
         /\ ReportedWithId(reply.structure) = CarriedBelow(reply.before, RootOid, RootPath)
         /\ \A pr \in ReportedIds(reply.structure) :
              pr[2] # "" => IdTags(reply.before, NodeAt(reply.before, pr[1])) = {pr[2]}

\* a snapshot without ensure_ids of a scene in which /root/A carries an id and
\* /root/A/B carries none
C18_Witness ==
  /\ Snapshot /\ ~reply.ensure_ids
  /\ IdTags(reply.before, 2) # {} /\ IdTags(reply.before, 3) = {}
  /\ reply.structure.children[1].id # ""
  /\ reply.structure.children[1].children[1].id = ""

(***************************************************************************)
(* Properties of the deletes of the differ (SpecDiff)                      *)
(***************************************************************************)

\* the paths of a live subtree found at path
RECURSIVE SubtreePaths(_, _)
SubtreePaths(node, path) ==
  {path} \cup UNION {SubtreePaths(node.children[i], Append(path, node.children[i].name)) :
                       i \in DOMAIN node.children}

\* the paths of the live nodes below existing, which the diff reaches at path,
\* that are matched neither by name nor by rename, and of their descendants
RECURSIVE Unmatched(_, _, _, _)
Unmatched(existing, path, desiredChildren, operations) ==
  UNION {IF \A k \in DOMAIN desiredChildren :
               i \notin MatchedTo(existing, path, desiredChildren[k], operations)
         THEN SubtreePaths(existing.children[i], Append(path, existing.children[i].name))
         ELSE UNION {Unmatched(existing.children[i], Append(path, desiredChildren[k].name),
                               desiredChildren[k].children, operations) :
                       k \in {j \in DOMAIN desiredChildren :
                                i \in MatchedTo(existing, path, desiredChildren[j], operations)}} :
         i \in DOMAIN existing.children}

\* the paths that the delete_node operations of a patch name
DeletedPaths(operations) ==
  {operations[k].node_path : k \in {j \in DOMAIN operations : operations[j].op = "delete_node"}}

\* C19: without allow_delete the diff emits no delete_node; with it, every
\* delete_node names a live node matched neither by name nor by rename, or a
\* descendant of one.
C19_DeletesOnlyUnmatched ==
  (Generated /\ reply.out.status = "success") =>
    IF ~reply.args.allow_delete THEN DeletedPaths(reply.out.generated) = {}
    ELSE DeletedPaths(reply.out.generated)
           \subseteq Unmatched(reply.out.structure, RootPath, reply.args.desired,
                               reply.out.generated)

(***************************************************************************)
(* Properties of the names of siblings (Spec)                              *)
(***************************************************************************)

\* the parent path and the name that a create_node or rename_node asks for
NameTarget(op) ==
  IF op.op = "create_node" THEN <<op.parent_path, op.node_name>>
  ELSE <<Front(op.node_path), op.new_name>>

\* operations i < j of a batch ask for the same name under the same parent
\* for two nodes, and nothing between them deletes, renames or moves a node
SameNameTwice(operations, i, j) ==
  /\ i < j
  /\ ~(operations[i].op = "rename_node" /\ operations[j].op = "rename_node"
       /\ operations[i].node_path = operations[j].node_path)
  /\ operations[i].op \in {"create_node", "rename_node"}
  /\ operations[j].op \in {"create_node", "rename_node"}
  /\ NameTarget(operations[i]) = NameTarget(operations[j])
  /\ \A k \in (i + 1)..(j - 1) : operations[k].op \in {"create_node", "set_property"}

\* no two children of one parent carry the same name
SiblingNamesUnique(w) ==
  \A n \in DOMAIN w : \A i, j \in DOMAIN w[n].kids :
     w[w[n].kids[i]].name = w[w[n].kids[j]].name => i = j

\* C20: after every batch the names of siblings are unique, and a batch in
\* which two create_node or rename_node operations ask for the same name
\* under the same parent is not reported as applied in full.
C20_SiblingNamesUnique ==
  /\ SiblingNamesUnique(live)
  /\ (Replied /\ reply.response.status = "success"
        /\ reply.response.applied = Len(reply.operations))
       => \A i, j \in DOMAIN reply.operations : ~SameNameTwice(reply.operations, i, j)

(***************************************************************************)
(* Properties of a batch whose operations build on one another (Spec)      *)
(***************************************************************************)

\* the names of the children of the root of the scene w
RootNames(w) == {w[w[RootOid].kids[i]].name : i \in DOMAIN w[RootOid].kids}

\* a batch of two operations in which the second sets p on the node /root/C
\* that the first creates, or that the first makes out of /root/A by a rename
BuildsOnEarlier(operations) ==
  /\ Len(operations) = 2
  /\ operations[1] \in {OpCreate(RootPath, "Node", "C", <<>>), OpRename(<<"root", "A">>, "C")}
  /\ operations[2] = OpSetProperty(<<"root", "C">>, "p", JNum(1))

\* C21: a strict batch on the undo/redo path whose second operation targets
\* the node that its first operation creates or renames is accepted in full:
\* the response is a success with applied = total.
C21_LaterSeesEarlier ==
  (/\ Replied /\ reply.strict /\ undo_redo
   /\ BuildsOnEarlier(reply.operations)
   /\ "A" \in RootNames(reply.before) /\ "C" \notin RootNames(reply.before))
    => /\ reply.wire.status = "success"
       /\ reply.wire.result.applied = reply.wire.result.total

(***************************************************************************)
(* Properties of the connection (SpecConn)                                 *)
(***************************************************************************)

\* what the frame response does to a promise that is pending under its id
Settled(promise, response) ==
  IF response.status = "success"
  THEN Promise(promise.commandId, "resolved", response.result)
  ELSE Promise(promise.commandId, "rejected",
               IF response.message # "" THEN response.message ELSE "Unknown error")

\* C22: the frames sent carry pairwise different commandIds, one per promise
\* with that id; a call on an open socket sends exactly one frame, with the
\* id of its promise; and a frame that arrives settles the promise pending
\* under its commandId with its result (or rejects it with its message) and
\* leaves every other promise as it was.
C22_CommandIdMatches ==
  /\ [](\A i \in DOMAIN conn.sent :
          /\ \A j \in DOMAIN conn.sent :
                conn.sent[i].commandId = conn.sent[j].commandId => i = j
          /\ Cardinality({k \in DOMAIN conn.promises :
                            conn.promises[k].commandId = conn.sent[i].commandId}) = 1)
  /\ [][(Len(conn'.promises) = Len(conn.promises) + 1 /\ conn.connected
           /\ conn.readyState = "OPEN")
         => /\ Len(conn'.sent) = Len(conn.sent) + 1
            /\ Last(conn'.sent).commandId = Last(conn'.promises).commandId
            /\ Last(conn'.promises).state = "pending"]_vars
  /\ [][Len(conn'.received) = Len(conn.received) + 1
         => \A i \in DOMAIN conn.promises :
               conn'.promises[i] =
                 IF /\ conn.promises[i].state = "pending"
                    /\ conn.promises[i].commandId = Last(conn'.received).commandId
                 THEN Settled(conn.promises[i], Last(conn'.received))
                 ELSE conn.promises[i]]_vars

\* two commands are pending; a frame for an unknown id arrives, then the
\* success frame for cmd_1, which settles the second promise only
C22_Witness ==
  /\ Len(conn.promises) = 2 /\ Len(conn.received) = 2
  /\ conn.received[1].commandId = CmdId(7)
  /\ conn.received[2] = [status |-> "success", commandId |-> CmdId(1), result |-> "r2",
                          message |-> ""]
  /\ conn.promises[1] = Promise(CmdId(0), "pending", "")
  /\ conn.promises[2] = Promise(CmdId(1), "resolved", "r2")

(***************************************************************************)
(* Properties of the loop of a strict batch (Spec)                         *)
(***************************************************************************)

\* the errors that the first k operations of a batch give one by one, when
\* none of them ends the loop
PrefixErrors(scene, oid, operations, k, ur) ==
  patchLoop([w |-> scene, nextOid |-> oid, errors |-> <<>>, queued |-> 0, applied |-> 0,
             dos |-> <<>>, attempted |-> 0, stop |-> FALSE],
            SubSeq(operations, 1, k), 1, FALSE, ur).errors

\* the scene, the instance counter and the undo manager that a call leaves
Left(a) == <<a.live, a.nextOid, a.um>>

\* C23: when an operation of a strict batch fails, on either path, the
\* operations attempted are the prefix that ends with the first failing
\* operation: the ones before it succeed, it fails, there is one error, and
\* the editor is left as the prefix alone leaves it.
C23_StrictStopsAtFirstFailure ==
  [][(/\ msg.kind = "apply_scene_patch" /\ msg.strict
      /\ reply'.kind = "apply_scene_patch" /\ reply'.response.errors # <<>>)
     => /\ reply'.response.attempted \in 1..Len(msg.operations)
        /\ Len(reply'.response.errors) = 1
        /\ PrefixErrors(live, nextOid, msg.operations, reply'.response.attempted - 1,
                        undo_redo) = <<>>
        /\ PrefixErrors(live, nextOid, msg.operations, reply'.response.attempted,
                        undo_redo) # <<>>
        /\ <<live', nextOid', um'>> =
             Left(apply_scene_patch(live, nextOid, um,
                                    SubSeq(msg.operations, 1, reply'.response.attempted),
                                    TRUE, undo_redo))]_vars

\* a strict batch of two operations on a host without undo/redo whose first
\* operation fails: the second, which would set p on /root/A, is not reached
C23_Witness ==
  /\ Replied /\ reply.strict /\ ~undo_redo
  /\ Len(reply.operations) = 2
  /\ reply.operations[2] = OpSetProperty(<<"root", "A">>, "p", JNum(1))
  /\ reply.response.attempted = 1
  /\ reply.response.errors # <<>>
  /\ live = reply.before

(***************************************************************************)
(* Properties of the undo/redo action of a batch (Spec)                    *)
(***************************************************************************)

\* C24: the action that a batch opens on the undo manager is consumed before
\* the response is sent, whatever the mode and the errors: after the batch
\* the undo manager has no action open that it did not have open before.
C24_ActionConsumed ==
  (Replied /\ undo_redo /\ reply.operations # <<>>) => um = reply.um_before

(***************************************************************************)
(* Properties of a reorder that is applied (SpecReorder)                   *)
(***************************************************************************)

\* the names of the children of the root of the scene w, in their order
RootOrder(w) == [i \in DOMAIN w[RootOid].kids |-> w[w[RootOid].kids[i]].name]

\* the names of the desired children, in their order
DesiredOrder(desiredChildren) == [i \in DOMAIN desiredChildren |-> desiredChildren[i].name]

\* C25: for every order of the live children of a parent and every desired
\* order of the same children, the reparent_node operations that the diff
\* emits with reorder_children, applied in order, are all applied and leave
\* the child at index i equal to desired child i, for every i.
C25_ReorderReachesDesired ==
  (Generated /\ reply.args.reorder_children /\ reply.args.apply)
    => /\ reply.out.status = "success"
       /\ \A k \in DOMAIN reply.out.generated : reply.out.generated[k].op = "reparent_node"
       /\ reply.out.applied = Len(reply.out.generated)
       /\ RootOrder(live) = DesiredOrder(reply.args.desired)

(***************************************************************************)
(* Properties of renames and deletes in one patch (SpecDiff)               *)
(***************************************************************************)

\* the old and the new path of every node that a patch renames
RenamedPaths(operations) ==
  UNION {{operations[k].node_path,
          Append(Front(operations[k].node_path), operations[k].new_name)} :
         k \in {j \in DOMAIN operations : operations[j].op = "rename_node"}}

\* C26: with detect_renames and allow_delete, no delete_node of the patch
\* names a node that a rename_node of the patch renames, under its old path
\* or under its new one, at the root level or below.
C26_RenamedNotDeleted ==
  (Generated /\ reply.out.status = "success"
     /\ reply.args.detect_renames /\ reply.args.allow_delete)
    => DeletedPaths(reply.out.generated) \cap RenamedPaths(reply.out.generated) = {}

\* C27: with allow_delete, no two delete_node operations of the patch name
\* the same node.
C27_DeletedOnce ==
  (Generated /\ reply.out.status = "success" /\ reply.args.allow_delete)
    => \A i, j \in DOMAIN reply.out.generated :
          (/\ reply.out.generated[i].op = "delete_node"
           /\ reply.out.generated[j].op = "delete_node"
           /\ reply.out.generated[i].node_path = reply.out.generated[j].node_path)
            => i = j

(***************************************************************************)
(* Properties of rename detection (SpecDiff)                               *)
(***************************************************************************)

\* the live children of existing that the patch renames to the name of d
RenamedTo(existing, path, d, operations) ==
  {i \in DOMAIN existing.children :
     OpRename(Append(path, existing.children[i].name), d.name) \in Range(operations)}

\* the live children that are free for desired child k: named by no desired
\* sibling, not renamed for an earlier desired child, of the type of the
\* desired child and, when it lists children, with as many children
FreeCandidates(existing, path, desiredChildren, k, operations) ==
  {i \in DOMAIN existing.children :
     /\ existing.children[i].name \notin NamesOf(desiredChildren)
     /\ \A j \in 1..(k - 1) : i \notin RenamedTo(existing, path, desiredChildren[j], operations)
     /\ existing.children[i].type = desiredChildren[k].type
     /\ desiredChildren[k].hasChildren
          => Len(desiredChildren[k].children) = Len(existing.children[i].children)}

\* the patch creates a node of the name of d under path
CreatedAt(path, d, operations) ==
  \E n \in DOMAIN operations :
     /\ operations[n].op = "create_node"
     /\ operations[n].parent_path = path
     /\ operations[n].node_name = d.name

\* the diff went on below a matched child: no type mismatch under strict_types
Descends(ex, d, args) == ~(args.strict_types /\ d.type # "" /\ ex.type # d.type)

\* for every desired child without a live namesake, below the node existing
\* that the diff reaches at path: with exactly one free candidate it is that
\* candidate that is renamed, and nothing is created; otherwise nothing is
\* renamed for it and the node is created
RECURSIVE RenameExact(_, _, _, _, _)
RenameExact(existing, path, desiredChildren, operations, args) ==
  /\ \A k \in DOMAIN desiredChildren :
        desiredChildren[k].name \notin NamesOf(existing.children) =>
          IF /\ args.detect_renames
             /\ Cardinality(FreeCandidates(existing, path, desiredChildren, k, operations)) = 1
          THEN /\ RenamedTo(existing, path, desiredChildren[k], operations)
                    = FreeCandidates(existing, path, desiredChildren, k, operations)
               /\ ~CreatedAt(path, desiredChildren[k], operations)
          ELSE /\ RenamedTo(existing, path, desiredChildren[k], operations) = {}
               /\ CreatedAt(path, desiredChildren[k], operations)
  /\ \A k \in DOMAIN desiredChildren :
        \A i \in MatchedTo(existing, path, desiredChildren[k], operations) :
           Descends(existing.children[i], desiredChildren[k], args) =>
             RenameExact(existing.children[i], Append(path, desiredChildren[k].name),
                         desiredChildren[k].children, operations, args)

\* C28: a rename_node is emitted for a desired child without a live namesake
\* exactly when one live child of the parent is free for it (not named by a
\* desired sibling, not used for an earlier rename, of its type and, when it
\* lists children, of its child count), and then for that child; with no
\* such child or several, the desired node is created and nothing is renamed
\* for it.  Every rename_node of the patch is one of these.
C28_RenameOnlyIfUnique ==
  (Generated /\ reply.out.status = "success") =>
    /\ RenameExact(reply.out.structure, RootPath, reply.args.desired, reply.out.generated,
                   reply.args)
    /\ \A n \in DOMAIN reply.out.generated :
          reply.out.generated[n].op = "rename_node" => reply.args.detect_renames

\* live A and B of type Node2D without children and the one desired child C
\* of type Node2D: two candidates, C is created and neither is renamed
C28_Witness ==
  /\ Generated /\ reply.out.status = "success" /\ reply.args.detect_renames
  /\ Len(reply.out.structure.children) = 2
  /\ \A i \in {1, 2} : /\ reply.out.structure.children[i].type = "Node2D"
                        /\ reply.out.structure.children[i].children = <<>>
  /\ Len(reply.args.desired) = 1
  /\ reply.args.desired[1].name = "C" /\ reply.args.desired[1].type = "Node2D"
  /\ CreatedAt(RootPath, reply.args.desired[1], reply.out.generated)
  /\ \A n \in DOMAIN reply.out.generated : reply.out.generated[n].op # "rename_node"

(***************************************************************************)
(* Properties of matching by name (SpecDiff)                               *)
(***************************************************************************)

\* the rename_node operations of a patch that give a child of path the name n
RenamesInto(path, n, operations) ==
  {k \in DOMAIN operations :
     /\ operations[k].op = "rename_node"
     /\ Front(operations[k].node_path) = path
     /\ operations[k].new_name = n}

\* the rename_node operations of a patch that rename the child n of path
RenamesOf(path, n, operations) ==
  {k \in DOMAIN operations :
     operations[k].op = "rename_node" /\ operations[k].node_path = Append(path, n)}

\* below the node existing that the diff reaches at path: a desired child
\* with a live namesake gets no rename_node and no create_node, and a live
\* child that a desired sibling names is not renamed
RECURSIVE NameFirst(_, _, _, _, _)
NameFirst(existing, path, desiredChildren, operations, args) ==
  /\ \A k \in DOMAIN desiredChildren :
        desiredChildren[k].name \in NamesOf(existing.children) =>
          /\ RenamesInto(path, desiredChildren[k].name, operations) = {}
          /\ ~CreatedAt(path, desiredChildren[k], operations)
          /\ RenamesOf(path, desiredChildren[k].name, operations) = {}
  /\ \A k \in DOMAIN desiredChildren :
        \A i \in MatchedTo(existing, path, desiredChildren[k], operations) :
           Descends(existing.children[i], desiredChildren[k], args) =>
             NameFirst(existing.children[i], Append(path, desiredChildren[k].name),
                       desiredChildren[k].children, operations, args)

\* C29: whatever the order of the desired children, a desired child whose
\* name a live sibling carries is matched to that sibling, so the patch has
\* no rename_node and no create_node for it, and no rename_node targets a
\* live child whose name is the name of a desired sibling.
C29_NameBeforeRename ==
  (Generated /\ reply.out.status = "success") =>
    NameFirst(reply.out.structure, RootPath, reply.args.desired, reply.out.generated,
              reply.args)

\* live A of type Node2D, desired [C of type Node2D, A]: C comes first and A
\* is the only live child of its type, yet A is kept for the desired A and C
\* is created
C29_Witness ==
  /\ Generated /\ reply.out.status = "success" /\ reply.args.detect_renames
  /\ Len(reply.out.structure.children) = 1
  /\ reply.out.structure.children[1].name = "A"
  /\ reply.out.structure.children[1].type = "Node2D"
  /\ Len(reply.args.desired) = 2
  /\ reply.args.desired[1].name = "C" /\ reply.args.desired[1].type = "Node2D"
  /\ ~reply.args.desired[1].hasChildren
  /\ reply.args.desired[2].name = "A"
  /\ CreatedAt(RootPath, reply.args.desired[1], reply.out.generated)
  /\ RenamesOf(RootPath, "A", reply.out.generated) = {}

(***************************************************************************)
(* Properties of type mismatches (SpecDiff)                                *)
(***************************************************************************)

\* the error that the diff records for a mismatch at path
TypeMismatch(path, ex, d) == [at |-> path, existing |-> ex.type, desired |-> d.type]

\* the mismatches of matched nodes that the diff meets below the node
\* existing, which it reaches at path
RECURSIVE Mismatches(_, _, _, _, _)
Mismatches(existing, path, desiredChildren, operations, args) ==
  UNION {UNION {(IF desiredChildren[k].type # ""
                    /\ existing.children[i].type # desiredChildren[k].type
                 THEN {TypeMismatch(Append(path, desiredChildren[k].name),
                                    existing.children[i], desiredChildren[k])}
                 ELSE {})
                \cup (IF Descends(existing.children[i], desiredChildren[k], args)
                      THEN Mismatches(existing.children[i],
                                      Append(path, desiredChildren[k].name),
                                      desiredChildren[k].children, operations, args)
                      ELSE {}) :
                i \in MatchedTo(existing, path, desiredChildren[k], operations)} :
         k \in DOMAIN desiredChildren}

\* the operation op concerns a descendant of the node at path
BelowPath(op, path) ==
  IF op.op = "create_node"
  THEN Len(op.parent_path) >= Len(path) /\ SubSeq(op.parent_path, 1, Len(path)) = path
  ELSE Len(op.node_path) > Len(path) /\ SubSeq(op.node_path, 1, Len(path)) = path

\* every set_property that the desired node d asks for at path is in the patch
PropertiesSet(path, d, operations) ==
  \A n \in DOMAIN d.properties :
     OpSetProperty(path, d.properties[n][1], d.properties[n][2]) \in Range(operations)

\* below the node existing that the diff reaches at path, every desired child
\* is dealt with: created when it has no match; left alone with all its
\* descendants when its type differs under strict_types; and otherwise its
\* properties are set and its children are dealt with in the same way
RECURSIVE DiffedAsUsual(_, _, _, _, _)
DiffedAsUsual(existing, path, desiredChildren, operations, args) ==
  \A k \in DOMAIN desiredChildren :
     /\ (\A i \in DOMAIN existing.children :
            i \notin MatchedTo(existing, path, desiredChildren[k], operations))
          => CreatedAt(path, desiredChildren[k], operations)
     /\ \A i \in MatchedTo(existing, path, desiredChildren[k], operations) :
          IF Descends(existing.children[i], desiredChildren[k], args)
          THEN /\ PropertiesSet(Append(path, desiredChildren[k].name), desiredChildren[k],
                                operations)
               /\ DiffedAsUsual(existing.children[i], Append(path, desiredChildren[k].name),
                                desiredChildren[k].children, operations, args)
          ELSE \A n \in DOMAIN operations :
                  /\ ~BelowPath(operations[n], Append(path, desiredChildren[k].name))
                  /\ ~(operations[n].op = "set_property"
                       /\ operations[n].node_path = Append(path, desiredChildren[k].name))

\* C30: the diff returns, with one error in its list for every matched node
\* whose type differs from the desired type; under strict_types the patch has
\* no set_property for such a node and no operation for its descendants,
\* while its siblings are diffed; without strict_types its properties and
\* children are diffed as those of any matched node.
C30_TypeMismatch ==
  Generated =>
    /\ Range(reply.out.errors)
         = Mismatches(reply.out.structure, RootPath, reply.args.desired,
                      reply.out.generated, reply.args)
    /\ \A i, j \in DOMAIN reply.out.errors :
          reply.out.errors[i] = reply.out.errors[j] => i = j
    /\ DiffedAsUsual(reply.out.structure, RootPath, reply.args.desired,
                     reply.out.generated, reply.args)

\* strict_types, live A of type Node, desired [A of type Node2D with p, C]:
\* one error for /root/A, nothing set on it, and C is created
C30_Witness ==
  /\ Generated /\ reply.args.strict_types
  /\ Len(reply.args.desired) = 2
  /\ reply.args.desired[1].name = "A" /\ reply.args.desired[1].properties # <<>>
  /\ reply.args.desired[2].name = "C"
  /\ reply.out.errors = <<[at |-> <<"root", "A">>, existing |-> "Node", desired |-> "Node2D"]>>
  /\ CreatedAt(RootPath, reply.args.desired[2], reply.out.generated)
  /\ \A n \in DOMAIN reply.out.generated : reply.out.generated[n].op # "set_property"

(***************************************************************************)
(* Properties of the creates of the differ (SpecDiff)                      *)
(***************************************************************************)

\* the operation op addresses the node at path p or a node below it
Addresses(op, p) ==
  \/ BelowPath(op, p)
  \/ op.op # "create_node" /\ op.node_path = p
  \/ /\ op.op = "reparent_node"
     /\ Len(op.new_parent_path) >= Len(p)
     /\ SubSeq(op.new_parent_path, 1, Len(p)) = p

\* the patch creates the desired node d under path after position after,
\* before every other operation that addresses it or a node below it, and
\* creates its desired children in the same way after it
RECURSIVE CreatedFirst(_, _, _, _)
CreatedFirst(path, d, operations, after) ==
  \E n \in DOMAIN operations :
     /\ n > after
     /\ operations[n].op = "create_node"
     /\ operations[n].parent_path = path
     /\ operations[n].node_name = d.name
     /\ \A m \in DOMAIN operations :
           (m # n /\ Addresses(operations[m], Append(path, d.name))) => m > n
     /\ \A c \in DOMAIN d.children :
           CreatedFirst(Append(path, d.name), d.children[c], operations, n)

\* every desired child without a match below the node existing, which the
\* diff reaches at path, is created first with its whole subtree
RECURSIVE CreatesInOrder(_, _, _, _, _)
CreatesInOrder(existing, path, desiredChildren, operations, args) ==
  \A k \in DOMAIN desiredChildren :
     /\ (\A i \in DOMAIN existing.children :
            i \notin MatchedTo(existing, path, desiredChildren[k], operations))
          => CreatedFirst(path, desiredChildren[k], operations, 0)
     /\ \A i \in MatchedTo(existing, path, desiredChildren[k], operations) :
          Descends(existing.children[i], desiredChildren[k], args) =>
            CreatesInOrder(existing.children[i], Append(path, desiredChildren[k].name),
                           desiredChildren[k].children, operations, args)

\* C31: for a desired node without a match the patch has a create_node for
\* it and for every node of its desired subtree, and the create_node of a node
\* comes before the create_node of each of its descendants and before every
\* other operation that addresses it or a path under it.
C31_CreatedBeforeUse ==
  Generated =>
    CreatesInOrder(reply.out.structure, RootPath, reply.args.desired, reply.out.generated,
                   reply.args)

\* the scene has no C and the desired C has the child B: create_node C under
\* /root comes before create_node B under /root/C
C31_Witness ==
  /\ Generated
  /\ \E k \in DOMAIN reply.args.desired :
        /\ reply.args.desired[k].name = "C"
        /\ Len(reply.args.desired[k].children) = 1
  /\ \E n, m \in DOMAIN reply.out.generated :
        /\ n < m
        /\ reply.out.generated[n].op = "create_node"
        /\ reply.out.generated[n].node_name = "C"
        /\ reply.out.generated[m].op = "create_node"
        /\ reply.out.generated[m].parent_path = <<"root", "C">>

(***************************************************************************)
(* Properties of the order of the deletes (SpecDiff)                       *)
(***************************************************************************)

\* the paths under which the patch may name the live child i of the node at
\* path: its own name, or the name that a rename_node of the patch gives it
ChildPaths(node, path, i, operations) ==
  {Append(path, node.children[i].name)} \cup
  {Append(path, operations[k].new_name) :
     k \in {j \in DOMAIN operations :
              /\ operations[j].op = "rename_node"
              /\ operations[j].node_path = Append(path, node.children[i].name)}}

\* every delete_node of the live node found at path, and of every node below
\* it, has a delete_node of each of its descendants before it
RECURSIVE DeletedDepthFirst(_, _, _)
DeletedDepthFirst(node, path, operations) ==
  /\ \A i \in DOMAIN operations :
        operations[i] = OpDelete(path) =>
          \A q \in SubtreePaths(node, path) \ {path} :
             \E j \in DOMAIN operations : j < i /\ operations[j] = OpDelete(q)
  /\ \A c \in DOMAIN node.children :
        \A q \in ChildPaths(node, path, c, operations) :
           DeletedDepthFirst(node.children[c], q, operations)

\* C32: deletes are depth-first: every delete_node of a node comes after a
\* delete_node of each of its descendants.
C32_DeletesDepthFirst ==
  Generated => DeletedDepthFirst(reply.out.structure, RootPath, reply.out.generated)

\* a live node with a child is deleted: the delete_node of the child comes
\* before the delete_node of the node
C32_Witness ==
  /\ Generated
  /\ \E c \in DOMAIN reply.out.structure.children :
        /\ reply.out.structure.children[c].children # <<>>
        /\ \E i, j \in DOMAIN reply.out.generated :
              /\ j < i
              /\ reply.out.generated[i] =
                   OpDelete(Append(RootPath, reply.out.structure.children[c].name))
              /\ reply.out.generated[j] =
                   OpDelete(<<"root", reply.out.structure.children[c].name,
                              reply.out.structure.children[c].children[1].name>>)

(***************************************************************************)
(* Properties of what the property filter keeps (SpecFilter)               *)
(***************************************************************************)

\* the filter has run on the operations of the diff
Filtered == Generated /\ reply.args.diff_properties /\ reply.out.status = "success"

\* the nodes of the snapshot below node, node included, that have the path
RECURSIVE SnapshotAt(_, _)
SnapshotAt(node, path) ==
  (IF node.path = path THEN {node} ELSE {})
  \cup UNION {SnapshotAt(node.children[i], path) : i \in DOMAIN node.children}

\* the snapshot has no node for the operation, under its path or under the path
\* it had before the rename of the patch, or has the node without the property
AbsentFromSnapshot(op, structure, aliases) ==
  \A node \in SnapshotAt(structure, reverseAliasGet(aliases, op.node_path)) :
     \A n \in DOMAIN node.props : node.props[n][1] # op.property

NotSetProperty(op) == op.op # "set_property"

\* C34: the filter keeps every set_property whose node or property is absent
\* from the snapshot, and leaves the other operations unchanged and in order:
\* its output is a subsequence of its input that lacks only set_property
\* operations.
C34_FilterKeeps ==
  Filtered =>
    /\ IsSubsequence(reply.out.operations, reply.out.generated)
    /\ SelectSeq(reply.out.operations, NotSetProperty)
         = SelectSeq(reply.out.generated, NotSetProperty)
    /\ \A i \in DOMAIN reply.out.generated :
          (/\ reply.out.generated[i].op = "set_property"
           /\ AbsentFromSnapshot(reply.out.generated[i], reply.out.structure,
                                 reply.out.aliases))
            => reply.out.generated[i] \in Range(reply.out.operations)

\* the filter drops a set_property, keeps the rename_node before it, keeps a
\* set_property of a property the snapshot lacks and one of a node it lacks
C34_Witness ==
  /\ Filtered
  /\ Len(reply.out.operations) < Len(reply.out.generated)
  /\ \E i \in DOMAIN reply.out.operations : reply.out.operations[i].op = "rename_node"
  /\ \E i \in DOMAIN reply.out.operations :
        /\ reply.out.operations[i].op = "set_property"
        /\ reply.out.operations[i].property = "q"
        /\ AbsentFromSnapshot(reply.out.operations[i], reply.out.structure,
                              reply.out.aliases)

\* a set_property of a node below a renamed one, which the snapshot has under
\* no path the filter asks for, is kept
C34_WitnessNode ==
  /\ Filtered
  /\ \E i \in DOMAIN reply.out.operations :
        /\ reply.out.operations[i].op = "set_property"
        /\ SnapshotAt(reply.out.structure,
                      reverseAliasGet(reply.out.aliases, reply.out.operations[i].node_path)) = {}

(***************************************************************************)
(* Properties of the requests of the property filter (SpecFilter)          *)
(***************************************************************************)

\* C35: during one generate_patch call the filter sends at most one
\* get_node_properties request for each node path, whether the first lookup
\* of the path succeeded or failed.
C35_OneRequestPerPath ==
  Filtered =>
    \A i, j \in DOMAIN reply.out.requests :
       i # j => reply.out.requests[i] # reply.out.requests[j]

(***************************************************************************)
(* Properties of the ids of descendants in the resolver (SpecResolve)      *)
(***************************************************************************)

\* the path of the node of a resolved rename_node or reparent_node after it
MovedTo(op) ==
  IF op.op = "rename_node" THEN Append(Front(op.node_path), op.new_name)
  ELSE Append(op.new_parent_path, Last(op.node_path))

\* C36: after a rename_node or reparent_node that addresses the node N by id,
\* a later operation of the batch that references the id of a descendant of N
\* resolves to the path of the descendant after the operation.  Stated for
\* every N but the scene root, with no other operation before the later one
\* that moves a node.
C36_DescendantFollows ==
  (Executed /\ reply.r.ok) =>
    LET snapshot == SnapshotMap(reply.before)
    IN \A i, j \in DOMAIN reply.operations :
         (/\ i < j
          /\ \A h \in DOMAIN reply.operations : (h # i /\ h < j) => KeepsPaths(reply.operations[h])
          /\ reply.operations[i].op \in {"rename_node", "reparent_node"}
          /\ reply.operations[i].node_id \in DOMAIN snapshot
          /\ snapshot[reply.operations[i].node_id] # RootPath
          /\ reply.operations[j].op # "create_node"
          /\ reply.operations[j].node_id \in DOMAIN snapshot
          /\ reply.operations[j].node_id # reply.operations[i].node_id
          /\ IsPrefix(snapshot[reply.operations[i].node_id],
                      snapshot[reply.operations[j].node_id]))
           => reply.r.resolved[j].node_path
                = MovedTo(reply.r.resolved[i])
                    \o SubSeq(snapshot[reply.operations[j].node_id],
                              Len(snapshot[reply.operations[i].node_id]) + 1,
                              Len(snapshot[reply.operations[j].node_id]))

(***************************************************************************)
(* Properties of the id of a deleted node in the resolver (SpecResolve)    *)
(***************************************************************************)

\* the positions of the field pairs of op that give the id, each after pairs
\* that give a path and no id
RefersTo(op, id) ==
  {q \in DOMAIN FieldPairs(op) :
     /\ FieldPairs(op)[q][1] = id
     /\ \A e \in 1..(q - 1) : FieldPairs(op)[e][1] = 0}

\* the fields of op give the id
Mentions(op, id) == \E q \in DOMAIN FieldPairs(op) : FieldPairs(op)[q][1] = id

C37_WitnessNode ==
  /\ Executed
  /\ Len(reply.operations) = 2
  /\ reply.operations[1].op = "delete_node"
  /\ reply.operations[1].node_id = 3
  /\ reply.operations[2].op = "set_property"
  /\ reply.operations[2].node_id = 3
  /\ Len(reply.r.resolved) = 1
  /\ ~reply.r.ok

(***************************************************************************)
(* Properties of the counts of the applicator (Spec)                       *)
(***************************************************************************)

\* C38: for every batch that reaches the loop of the applicator the count
\* applied lies between 0 and total; for a lenient batch applied plus the
\* number of errors is total; for a strict batch on the undo/redo path applied
\* is 0 or total.
C38_AppliedCounts ==
  (Replied /\ reply.operations # <<>>) =>
    /\ reply.response.total = Len(reply.operations)
    /\ 0 <= reply.response.applied
    /\ reply.response.applied <= reply.response.total
    /\ ~reply.strict =>
          reply.response.applied + Len(reply.response.errors) = reply.response.total
    /\ (reply.strict /\ reply.response.used_undo_redo) =>
          reply.response.applied \in {0, reply.response.total}

\* a strict batch on the undo/redo path queued its first operation and failed
\* at the second: applied is 0 of 2
C38_Witness ==
  /\ Replied
  /\ reply.strict /\ reply.response.used_undo_redo
  /\ reply.response.total = 2
  /\ reply.response.attempted = 2
  /\ Len(reply.response.errors) = 1
  /\ reply.response.applied = 0

\* a lenient batch applied one operation of two and lists one error
C38_WitnessLenient ==
  /\ Replied
  /\ ~reply.strict
  /\ reply.response.total = 2
  /\ reply.response.applied = 1
  /\ Len(reply.response.errors) = 1

(***************************************************************************)
(* Properties of the pending commands of the connection (SpecConn)         *)
(***************************************************************************)

\* C39: every promise of sendCommand settles once, by the response with its
\* commandId, by its timeout or by disconnect(), and its entry leaves the
\* pending queue when it settles; a response that arrives after the timeout
\* or after disconnect() is ignored; after disconnect() the pending queue is
\* empty.  Here: the queue holds exactly the ids of the pending promises, and
\* it is empty in the state that disconnect() leaves.
C39_QueueEmptyAfterDisconnect ==
  /\ \A i \in DOMAIN conn.promises :
        conn.promises[i].state = "pending" <=> conn.promises[i].commandId \in conn.commandQueue
  /\ conn.event = "disconnect" => conn.commandQueue = {}

\* the part of C39 on the queue and the promises alone
C39_QueueIsPending ==
  \A i \in DOMAIN conn.promises :
     conn.promises[i].state = "pending" <=> conn.promises[i].commandId \in conn.commandQueue

\* the part of C39 on settling once: a promise that is settled stays as it is,
\* whatever arrives or runs later
C39_SettledOnce ==
  [][\A i \in DOMAIN conn.promises :
        conn.promises[i].state # "pending" => conn'.promises[i] = conn.promises[i]]_vars

(***************************************************************************)
(* Properties of concurrent calls on a connection that is down             *)
(* (SpecConnect)                                                           *)
(***************************************************************************)

\* the sockets that are connecting or open
Alive == {k \in DOMAIN conn.sockets : conn.sockets[k].state \in {"CONNECTING", "OPEN"}}

\* C40: when several calls of sendCommand are issued while the connection is
\* down, at most one WebSocket is opened and kept and none is orphaned: every
\* socket that is connecting or open is the one the connection holds in ws.
C40_OneSocketKept == \A k \in Alive : k = conn.ws

\* the part of C40 on the close of a superseded socket: while the socket that
\* the connection holds is open and was taken as connected, the connection
\* says connected
C40_SupersededClose ==
  (/\ conn.ws # 0
   /\ conn.sockets[conn.ws].state = "OPEN"
   /\ conn.sockets[conn.ws].result = "resolved") => conn.connected

\* the part of C40 on one socket at a time
C40_AtMostOne == Cardinality(Alive) <= 1

=============================================================================
